---- MODULE Spec2Model ----
(***************************************************************************)
(* A model of the AMBER-ICI backend (src/backend/main.py): the chain       *)
(* orchestrator (chain_models, generate_parallel), the backend stream      *)
(* reader (stream_ollama_response) and the streaming gateway               *)
(* (websocket_stream); of the investigative agent                          *)
(* (src/agents/investigative_agent.py); and of the graph builder and the   *)
(* entity extractor (src/graph) behind the graph endpoint.  Each component *)
(* has its own specification; the others stay idle in it.                  *)
(*                                                                         *)
(* Text is a sequence of characters, so that string concatenation is       *)
(* sequence concatenation.  The inference backend is the environment: at   *)
(* every read it delivers one line, closes the stream, or the connection   *)
(* fails.  The backend is assumed to honour the ModelBackend interface:    *)
(* a well-formed line is a JSON object whose "response", when present, is  *)
(* a string and whose "done", when present, is a boolean.                  *)
(***************************************************************************)
EXTENDS Integers, Sequences, FiniteSets

VARIABLES
    \* ---- chain_models (POST /api/chain) ----
    chain_type,       \* request.chain_type
    models,           \* request.models
    prompt,           \* request.prompt
    chain_pc,         \* position of the handler: "loop", "stream", "gather", "returned"
    idx,              \* sequential: number of models the for loop has taken
    current_prompt,   \* local current_prompt
    response,         \* sequential: local response of the running iteration
    results,          \* local results (returned under "results")
    tasks,            \* parallel: the generate_parallel coroutines given to gather
    calls,            \* history: the backend invocation made for each model position
    completion,       \* history: parallel: the coroutines in the order they returned
    \* ---- websocket_stream (/ws/stream), one channel ----
    active_connections, \* module-level set of accepted channels
    ws_pc,            \* position of the handler
    ws_request,       \* the request being served: model / prompt
    ws_chunk,         \* the chunk the generator has yielded and that is being sent
    ws_call,          \* history: the backend invocation last opened for this channel
    ws_opened,        \* history: number of backend invocations opened for this channel
    ws_pushed,        \* history: events handed to the client since the last request was read
    ws_yielded,       \* history: chunks the generator yielded since the last request was read
    ws_received,      \* number of request messages read from the channel
    clientConnected,  \* environment: the client is still connected
    \* ---- InvestigativeAgent (src/agents/investigative_agent.py), one instance ----
    agent_type,       \* self.agent_type
    agent_models,     \* self.models
    execution_log,    \* self.execution_log, the one list object of the instance
    ag_pc,            \* position of execute: "idle", "variant", "finalize", "raised"
    ag_task,          \* argument task of the running execute
    ag_parameters,    \* argument parameters of the running execute
    result,           \* local result of the running execute
    returned,         \* history: the records execute has returned, in call order
    appended,         \* history: per execute call, the entries _log_step appended during it
    clock,            \* environment: what datetime.now() reads
    \* ---- POST /api/graph/build and the module-level graph_builder ----
    heap,             \* the list objects created so far, by reference
    builder,          \* graph_builder: the references self.nodes, self.edges; self.node_ids
    g_pc,             \* per request: "none", "built", "responded"
    g_entities,       \* per request: the entity sequence given to build_graph
    graph_data,       \* per request: the dict build_graph returned (it holds references)
    g_response,       \* per request: the serialized response body
    edge_pairs,       \* history: per request, the entity pairs an edge was created from
    b_last,           \* a caller of the builder: its latest call, the entities of its
                      \* latest build_graph call and the dict that call returned
    b_before,         \* history: the methods the caller called before its latest call
    ep_data,          \* the body of a request that carries texts: data["texts"], data["sources"]
    \* ---- EntityExtractor.extract_entities, one call ----
    ex_text,          \* argument text
    ex_pc,            \* position of the call: "patterns", "named", "phrases", "returned"
    ex_entities,      \* local entities
    entity_id,        \* local entity_id
    \* ---- a caller of extract_entities and extract_relationships ----
    rel_pc,           \* "collect" while it extracts, "returned" after extract_relationships
    rel_texts,        \* history: the texts it has had extracted, in order
    rel_entities,     \* its list of entities: the results of its extract_entities calls
    relationships     \* the list extract_relationships returned

chainVars == <<chain_type, models, prompt, chain_pc, idx, current_prompt,
               response, results, tasks, calls, completion>>
wsVars == <<active_connections, ws_pc, ws_request, ws_chunk, ws_call, ws_opened,
            ws_pushed, ws_yielded, ws_received, clientConnected>>
agentVars == <<agent_type, agent_models, execution_log, ag_pc, ag_task,
               ag_parameters, result, returned, appended, clock>>
graphVars == <<heap, builder, g_pc, g_entities, graph_data, g_response, edge_pairs,
               b_last, b_before, ep_data>>
relVars == <<rel_pc, rel_texts, rel_entities, relationships>>
extractVars == <<ex_text, ex_pc, ex_entities, entity_id, relVars>>
vars == <<chainVars, wsVars, agentVars, graphVars, extractVars>>

----------------------------------------------------------------------------
(* Bounds of the model *)

\* longest request.models explored
MaxModels == 2
\* most lines the backend delivers on one stream before it ends or fails
MaxLines == 2
\* most request messages read from one channel
MaxRequests == 2
\* most execute calls made on one agent instance
MaxExecutes == 2
\* latest reading of the clock
MaxClock == 2
\* longest entity sequence given to build_graph
MaxEntities == 2
\* most words a text given to extract_entities is made of
MaxTokens == 3

\* the model lists explored: the first n of these names, and one list that
\* names the same model twice
ModelNames == <<"m1", "m2", "m3", "m4">>
ModelLists ==
    {SubSeq(ModelNames, 1, n) : n \in 0..MaxModels} \cup {<<"m1", "m1">>}
Fragments == {<<"a">>, <<"b">>}
Prompts == {<<"p">>}
ChainTypes == {"sequential", "parallel", "other"}

----------------------------------------------------------------------------
(* The backend stream and its reader: stream_ollama_response *)

\* a parsed JSON object of the stream; the absent "response" key is hasResponse = FALSE
Chunk(hasResponse, text, done, isError) ==
    [hasResponse |-> hasResponse, response |-> text, done |-> done, error |-> isError]

NoChunk == Chunk(FALSE, <<>>, FALSE, FALSE)

\* {"error": str(e), "done": True}
ErrorChunk == Chunk(FALSE, <<>>, TRUE, TRUE)

\* what one read of response.content can bring: a well-formed line, a line
\* json.loads rejects with JSONDecodeError ("bad": a blank line is one), a
\* line of bytes that are not text in any encoding json.loads detects, which
\* it rejects with UnicodeDecodeError ("undecodable"), the end of the body, a
\* connection failure.  The iteration ends at the empty read, so the loop
\* body never sees an empty line and `if line:` always holds
JsonLines ==
    {[kind |-> "json", chunk |-> Chunk(TRUE, f, d, FALSE)] : f \in Fragments, d \in BOOLEAN}
    \cup {[kind |-> "json", chunk |-> Chunk(FALSE, <<>>, d, FALSE)] : d \in BOOLEAN}

BackendOutcomes ==
    JsonLines \cup {[kind |-> k, chunk |-> NoChunk] :
                        k \in {"bad", "undecodable", "eof", "fail"}}

\* the outcomes possible after n lines were delivered: the stream is finite
OutcomesAfter(n) ==
    IF n < MaxLines THEN BackendOutcomes
    ELSE {o \in BackendOutcomes : o.kind \in {"eof", "fail"}}

\* variant: a connection failure ends the generator without an error chunk
stream_ollama_response_silent(o) ==
    CASE o.kind = "json"  -> [yields |-> TRUE, chunk |-> o.chunk, ended |-> FALSE]
      [] o.kind = "bad"   -> [yields |-> FALSE, chunk |-> NoChunk, ended |-> FALSE]
      [] o.kind = "undecodable" -> [yields |-> TRUE, chunk |-> ErrorChunk, ended |-> FALSE]
      [] o.kind = "fail"  -> [yields |-> FALSE, chunk |-> NoChunk, ended |-> TRUE]
      [] o.kind = "eof"   -> [yields |-> FALSE, chunk |-> NoChunk, ended |-> TRUE]

\* one turn of the generator over one outcome: does it yield, what, and has it
\* ended.  The inner try catches JSONDecodeError only; any other exception of
\* json.loads, like one of the connection, reaches the outer `except Exception`
stream_ollama_response(o) ==
    CASE o.kind = "json"  -> [yields |-> TRUE, chunk |-> o.chunk, ended |-> FALSE]
      [] o.kind = "bad"   -> [yields |-> FALSE, chunk |-> NoChunk, ended |-> FALSE]
      [] o.kind = "undecodable" -> [yields |-> TRUE, chunk |-> ErrorChunk, ended |-> FALSE]
      [] o.kind = "fail"  -> [yields |-> TRUE, chunk |-> ErrorChunk, ended |-> FALSE]
      [] o.kind = "eof"   -> [yields |-> FALSE, chunk |-> NoChunk, ended |-> TRUE]

\* variant: a fragment is put in front of the text received so far
Accumulate_front(text, chunk) ==
    IF chunk.hasResponse THEN chunk.response \o text ELSE text

\* if "response" in chunk: response += chunk["response"]
Accumulate(text, chunk) ==
    IF chunk.hasResponse THEN text \o chunk.response ELSE text

\* variant: the done marker is never seen, the consumer reads to the end of the stream
IsDone_never(chunk) == FALSE

\* chunk.get("done", False)
IsDone(chunk) == chunk.done

----------------------------------------------------------------------------
(* History of backend invocations *)

Unstarted == [status |-> "unstarted", model |-> "", prompt |-> <<>>, lines |-> 0,
              sent |-> <<>>, failed |-> FALSE, overrun |-> FALSE]

OpenCall(m, p) == [status |-> "open", model |-> m, prompt |-> p, lines |-> 0,
                   sent |-> <<>>, failed |-> FALSE, overrun |-> FALSE]

\* the backend's side of one read: the line count, the text delivered in
\* well-formed lines, whether the connection failed; closed when the consumer stops
CallAfter(c, o, stops) ==
    [c EXCEPT !.lines = IF o.kind \in {"eof", "fail"} THEN @ ELSE @ + 1,
              !.sent = IF o.kind = "json" /\ o.chunk.hasResponse THEN @ \o o.chunk.response ELSE @,
              !.failed = (o.kind = "fail"),
              !.status = IF stops THEN "closed" ELSE @]

\* the consumer's loop body has run on what the generator handed over: an
\* event with done true after which the loop goes on is an overrun
LoopBodyRan(c, g, stops) ==
    [c EXCEPT !.overrun = @ \/ (g.yields /\ g.chunk.done /\ ~stops)]

----------------------------------------------------------------------------
(* chain_models and generate_parallel *)

\* results.append({"model": ..., "input": ..., "output": ...}); the wall-clock
\* "timestamp" of the entry is left out
ResultEntry(m, input, output) == [model |-> m, input |-> input, output |-> output]

\* variant: the output is not fed forward, every model gets the prompt it had
NextPrompt_keep(cur, resp) == cur

\* current_prompt = response  # Feed output to next model
NextPrompt(cur, resp) == resp

\* variant: the loop goes on to its next model while a stream is still being read
SeqMayStart_eager == chain_pc \in {"loop", "stream"}

\* the for loop takes its next model only between two iterations
SeqMayStart == chain_pc = "loop"

\* a generate_parallel coroutine: its local response and where it stands
NewTask == [status |-> "pending", response |-> <<>>]

\* variant: the caller is resumed as soon as one awaitable has returned
GatherReady_first(t) == \E i \in DOMAIN t : t[i].status = "done"

\* asyncio.gather resumes its caller when every awaitable has returned
GatherReady(t) == \A i \in DOMAIN t : t[i].status = "done"

\* variant: the return values in the order the awaitables finished
GatherResults_asCompleted(t, finished) ==
    [k \in 1..Len(finished) |-> t[finished[k]].response]

\* the list gather returns: the return values in the order the awaitables were
\* given, whatever the order they finished in
GatherResults(t, finished) == [i \in DOMAIN t |-> t[i].response]

\* for model, response in zip(request.models, parallel_results): results.append(...)
Stitch(ms, p, outs) ==
    [i \in 1..(IF Len(ms) < Len(outs) THEN Len(ms) ELSE Len(outs)) |->
        ResultEntry(ms[i], p, outs[i])]

\* a message of the client: text that json.loads turns into an object, into
\* another JSON value, or rejects; an absent key is hasModel / hasPrompt = FALSE
Request(json, hasModel, m, hasPrompt, p) ==
    [json |-> json, hasModel |-> hasModel, model |-> m,
     hasPrompt |-> hasPrompt, prompt |-> p]

NoRequest == Request("object", FALSE, "", FALSE, <<>>)

\* the streaming gateway before any channel is accepted
WsIdle ==
    /\ active_connections = {}
    /\ ws_pc = "new"
    /\ ws_request = NoRequest
    /\ ws_chunk = NoChunk
    /\ ws_call = Unstarted
    /\ ws_opened = 0
    /\ ws_pushed = <<>>
    /\ ws_yielded = <<>>
    /\ ws_received = 0
    /\ clientConnected = TRUE

\* an optional value: None, or the one value it holds
None == <<>>
Some(x) == <<x>>

\* a value of the parameters dict under one key: the key is absent, or it
\* holds a string, or it holds a number
Absent == [kind |-> "absent", text |-> <<>>]
Str(t) == [kind |-> "str", text |-> t]
Number == [kind |-> "int", text |-> <<>>]

\* task.parameters or {}
NoParameters == [data |-> Absent, content |-> Absent]

\* the dict execute creates: status "completed", steps [], output None; the
\* keys error, execution_log, end_time and duration_seconds are not set yet
NewResult(type, task, ms, start_time) ==
    [agent_type |-> type, task |-> task, models |-> ms, status |-> "completed",
     start_time |-> start_time, steps |-> <<>>, output |-> None,
     execution_log |-> None, error |-> None, end_time |-> None,
     duration_seconds |-> None]

\* no agent has been constructed
AgentIdle ==
    /\ agent_type = "none"
    /\ agent_models = <<>>
    /\ execution_log = <<>>
    /\ ag_pc = "off"
    /\ ag_task = ""
    /\ ag_parameters = NoParameters
    /\ result = NewResult("none", "", <<>>, 0)
    /\ returned = <<>>
    /\ appended = <<>>
    /\ clock = 0

\* the build requests in flight on the service
BuildRequests == {"r1", "r2"}

\* the graph a request has before build_graph returned
NoGraph == [nodes |-> <<>>, edges |-> <<>>, stats |-> [node_count |-> 0, edge_count |-> 0]]
NoGraphData == [nodes |-> 0, edges |-> 0, stats |-> [node_count |-> 0, edge_count |-> 0]]

\* no method of the builder has been called
NoCall == [op |-> "none", entities |-> <<>>, graph |-> NoGraphData]

\* no request body
NoData == [texts |-> <<>>, sources |-> <<>>]

\* graph_builder = GraphBuilder(): __init__ creates two lists and a set; no
\* build request has arrived
GraphIdle ==
    /\ heap = <<<<>>, <<>>>>
    /\ builder = [nodes |-> 1, edges |-> 2, node_ids |-> {}]
    /\ g_pc = [r \in BuildRequests |-> "none"]
    /\ g_entities = [r \in BuildRequests |-> <<>>]
    /\ graph_data = [r \in BuildRequests |-> NoGraphData]
    /\ g_response = [r \in BuildRequests |-> NoGraph]
    /\ edge_pairs = [r \in BuildRequests |-> <<>>]
    /\ b_last = NoCall
    /\ b_before = {}
    /\ ep_data = NoData

\* extract_entities has not been called
ExtractIdle ==
    /\ ex_text = <<>>
    /\ ex_pc = "off"
    /\ ex_entities = <<>>
    /\ entity_id = 0
    /\ rel_pc = "off"
    /\ rel_texts = <<>>
    /\ rel_entities = <<>>
    /\ relationships = <<>>

ChainInit ==
    /\ chain_type \in ChainTypes
    /\ models \in ModelLists
    /\ prompt \in Prompts
    /\ chain_pc = "loop"
    /\ idx = 0
    /\ current_prompt = prompt
    /\ response = <<>>
    /\ results = <<>>
    /\ tasks = <<>>
    /\ completion = <<>>
    /\ calls = [i \in 1..Len(models) |-> Unstarted]
    /\ WsIdle
    /\ AgentIdle
    /\ GraphIdle
    /\ ExtractIdle

\* for model in request.models: response = ""; the generator is created and
\* its first read is awaited
SeqNextModel ==
    /\ chain_type = "sequential"
    /\ SeqMayStart
    /\ idx < Len(models)
    /\ idx' = idx + 1
    /\ response' = <<>>
    /\ calls' = [calls EXCEPT ![idx + 1] = OpenCall(models[idx + 1], current_prompt)]
    /\ chain_pc' = "stream"
    /\ UNCHANGED <<chain_type, models, prompt, current_prompt, results, tasks>>
    /\ UNCHANGED <<wsVars, agentVars, graphVars, extractVars, completion>>

\* one read of the running iteration's stream; at the first done chunk, or when
\* the generator ends, the entry is appended and the output fed forward
SeqReadLine ==
    /\ chain_type = "sequential"
    /\ chain_pc = "stream"
    /\ \E o \in OutcomesAfter(calls[idx].lines) :
        LET g == stream_ollama_response(o)
            r == IF g.yields THEN Accumulate(response, g.chunk) ELSE response
            stops == g.ended \/ (g.yields /\ IsDone(g.chunk))
        IN /\ calls' = [calls EXCEPT ![idx] = LoopBodyRan(CallAfter(@, o, stops), g, stops)]
           /\ response' = r
           /\ IF stops
              THEN /\ results' = Append(results, ResultEntry(models[idx], current_prompt, r))
                   /\ current_prompt' = NextPrompt(current_prompt, r)
                   /\ chain_pc' = "loop"
              ELSE UNCHANGED <<results, current_prompt, chain_pc>>
    /\ UNCHANGED <<chain_type, models, prompt, idx, tasks>>
    /\ UNCHANGED <<wsVars, agentVars, graphVars, extractVars, completion>>

\* return {"chain_type": ..., "results": results} once the for loop is exhausted
SeqReturn ==
    /\ chain_type = "sequential"
    /\ chain_pc = "loop"
    /\ idx = Len(models)
    /\ chain_pc' = "returned"
    /\ UNCHANGED <<chain_type, models, prompt, idx, current_prompt, response,
                   results, tasks, calls>>
    /\ UNCHANGED <<wsVars, agentVars, graphVars, extractVars, completion>>

\* tasks.append(generate_parallel(model, current_prompt)) for every model, then
\* await asyncio.gather(*tasks)
ParDispatch ==
    /\ chain_type = "parallel"
    /\ chain_pc = "loop"
    /\ tasks' = [i \in 1..Len(models) |-> NewTask]
    /\ chain_pc' = "gather"
    /\ UNCHANGED <<chain_type, models, prompt, idx, current_prompt, response,
                   results, calls>>
    /\ UNCHANGED <<wsVars, agentVars, graphVars, extractVars, completion>>

\* a coroutine is scheduled: response = "" and its stream is opened.  gather
\* puts its tasks on the ready queue in the order given, and the event loop
\* runs each of them to its first await before it polls for input
ParStart(i) ==
    /\ chain_pc = "gather"
    /\ tasks[i].status = "pending"
    /\ \A j \in 1..(i - 1) : tasks[j].status # "pending"
    /\ tasks' = [tasks EXCEPT ![i].status = "running"]
    /\ calls' = [calls EXCEPT ![i] = OpenCall(models[i], current_prompt)]
    /\ UNCHANGED <<chain_type, models, prompt, chain_pc, idx, current_prompt,
                   response, results>>
    /\ UNCHANGED <<wsVars, agentVars, graphVars, extractVars, completion>>

\* one read of coroutine i's stream; it returns its response at the first done
\* chunk or when the generator ends
ParReadLine(i) ==
    /\ chain_pc = "gather"
    /\ tasks[i].status = "running"
    /\ \A j \in DOMAIN tasks : tasks[j].status # "pending"
    /\ \E o \in OutcomesAfter(calls[i].lines) :
        LET g == stream_ollama_response(o)
            r == IF g.yields THEN Accumulate(tasks[i].response, g.chunk)
                 ELSE tasks[i].response
            stops == g.ended \/ (g.yields /\ IsDone(g.chunk))
        IN /\ calls' = [calls EXCEPT ![i] = LoopBodyRan(CallAfter(@, o, stops), g, stops)]
           /\ tasks' = [tasks EXCEPT ![i] =
                           [status |-> IF stops THEN "done" ELSE "running",
                            response |-> r]]
           /\ completion' = IF stops THEN Append(completion, i) ELSE completion
    /\ UNCHANGED <<chain_type, models, prompt, chain_pc, idx, current_prompt,
                   response, results>>
    /\ UNCHANGED <<wsVars, agentVars, graphVars, extractVars>>

\* gather returns; the outputs are zipped with the models and the call returns
ParReturn ==
    /\ chain_type = "parallel"
    /\ chain_pc = "gather"
    /\ GatherReady(tasks)
    /\ results' = Stitch(models, current_prompt, GatherResults(tasks, completion))
    /\ chain_pc' = "returned"
    /\ UNCHANGED <<chain_type, models, prompt, idx, current_prompt, response,
                   tasks, calls>>
    /\ UNCHANGED <<wsVars, agentVars, graphVars, extractVars, completion>>

\* any other chain_type: neither branch runs and the empty list is returned
OtherReturn ==
    /\ chain_type \notin {"sequential", "parallel"}
    /\ chain_pc = "loop"
    /\ chain_pc' = "returned"
    /\ UNCHANGED <<chain_type, models, prompt, idx, current_prompt, response,
                   results, tasks, calls>>
    /\ UNCHANGED <<wsVars, agentVars, graphVars, extractVars, completion>>

ChainNext ==
    \/ SeqNextModel
    \/ SeqReadLine
    \/ SeqReturn
    \/ ParDispatch
    \/ \E i \in DOMAIN tasks : ParStart(i)
    \/ \E i \in DOMAIN tasks : ParReadLine(i)
    \/ ParReturn
    \/ OtherReturn

SpecChain == ChainInit /\ [][ChainNext]_vars

----------------------------------------------------------------------------
(* websocket_stream: the streaming gateway, one client channel *)

Channel == "ws1"

Requests ==
    {Request("object", TRUE, m, TRUE, <<"p">>) : m \in {"m1", "m2"}}
    \cup {Request("object", FALSE, "", TRUE, <<"p">>),
          Request("object", TRUE, "", TRUE, <<"p">>),
          Request("object", TRUE, "m1", FALSE, <<>>),
          Request("object", TRUE, "m1", TRUE, <<>>),
          Request("array", FALSE, "", FALSE, <<>>),
          Request("malformed", FALSE, "", FALSE, <<>>)}

\* variant: only an absent key is rejected, an empty string is let through
MissingFields_absentOnly(req) == ~req.hasModel \/ ~req.hasPrompt

\* if not model or not prompt
MissingFields(req) ==
    \/ ~req.hasModel \/ req.model = ""
    \/ ~req.hasPrompt \/ req.prompt = <<>>

\* {"error": "Missing model or prompt", "done": True}
MissingFieldsEvent ==
    [keys |-> {"error", "done"}, model |-> "", chunk |-> NoChunk]

\* {"model": model, "chunk": chunk, "timestamp": time.time()}
TokenEvent(m, c) ==
    [keys |-> {"model", "chunk", "timestamp"}, model |-> m, chunk |-> c]

\* variant: the handler also takes a request while a stream is being relayed
WsMayReceive_eager == ws_pc \in {"receive", "stream"}

\* data = await websocket.receive_text() is reached only at the top of the loop
WsMayReceive == ws_pc = "receive"

\* the two except clauses: WebSocketDisconnect removes the channel (KeyError if
\* it is absent), any other exception removes it if present
ExitPc(exc) ==
    IF exc = "WebSocketDisconnect" /\ Channel \notin active_connections
    THEN "crashed" ELSE "closed"

\* the push loop of the invocation being relayed, if any, is over
CloseCall(c) == IF c.status = "open" THEN [c EXCEPT !.status = "closed"] ELSE c

\* what a send on a channel whose client is gone raises
SendFailures == {"WebSocketDisconnect", "Exception"}

ChainIdle ==
    /\ chain_type = "sequential"
    /\ models = <<>>
    /\ prompt = <<>>
    /\ chain_pc = "idle"
    /\ idx = 0
    /\ current_prompt = <<>>
    /\ response = <<>>
    /\ results = <<>>
    /\ tasks = <<>>
    /\ completion = <<>>
    /\ calls = <<>>

WsInit ==
    /\ WsIdle
    /\ ChainIdle
    /\ AgentIdle
    /\ GraphIdle
    /\ ExtractIdle

\* await websocket.accept(); active_connections.add(websocket)
WsAccept ==
    /\ UNCHANGED <<chainVars, agentVars, graphVars, extractVars>>
    /\ ws_pc = "new"
    /\ clientConnected
    /\ active_connections' = active_connections \cup {Channel}
    /\ ws_pc' = "receive"
    /\ UNCHANGED <<ws_request, ws_chunk, ws_call, ws_opened, ws_pushed, ws_yielded,
                   ws_received, clientConnected>>

\* the client goes away, at any moment of an accepted channel
ClientDisconnect ==
    /\ UNCHANGED <<chainVars, agentVars, graphVars, extractVars>>
    /\ ws_pc \notin {"new", "closed", "crashed"}
    /\ clientConnected
    /\ clientConnected' = FALSE
    /\ UNCHANGED <<active_connections, ws_pc, ws_request, ws_chunk, ws_call,
                   ws_opened, ws_pushed, ws_yielded, ws_received>>

\* variant: only the WebSocketDisconnect clause removes the channel
HandlerExit_disconnectOnly(exc) ==
    /\ active_connections' = IF exc = "WebSocketDisconnect"
                              THEN active_connections \ {Channel}
                              ELSE active_connections
    /\ ws_pc' = ExitPc(exc)
    /\ ws_call' = CloseCall(ws_call)

\* the handler leaves through one of its except clauses
HandlerExit(exc) ==
    /\ active_connections' = active_connections \ {Channel}
    /\ ws_pc' = ExitPc(exc)
    /\ ws_call' = CloseCall(ws_call)

\* a request message is read and handled up to the next await: json.loads,
\* the three request_data.get, the validation, the creation of the generator
WsReceive ==
    /\ UNCHANGED <<chainVars, agentVars, graphVars, extractVars>>
    /\ WsMayReceive
    /\ clientConnected
    /\ ws_received < MaxRequests
    /\ \E req \in Requests :
        /\ ws_received' = ws_received + 1
        /\ ws_request' = req
        /\ ws_pushed' = <<>>
        /\ ws_yielded' = <<>>
        /\ IF req.json # "object"
           THEN /\ HandlerExit("Exception")
                /\ UNCHANGED <<ws_chunk, ws_opened, clientConnected>>
           ELSE IF MissingFields(req)
           THEN /\ ws_pc' = "send_error"
                /\ UNCHANGED <<active_connections, ws_chunk, ws_call, ws_opened,
                               clientConnected>>
           ELSE /\ ws_call' = OpenCall(req.model, req.prompt)
                /\ ws_opened' = ws_opened + 1
                /\ ws_pc' = "stream"
                /\ UNCHANGED <<active_connections, ws_chunk, clientConnected>>

\* receive_text on a channel whose client is gone raises WebSocketDisconnect
WsReceiveDisconnected ==
    /\ UNCHANGED <<chainVars, agentVars, graphVars, extractVars>>
    /\ ws_pc = "receive"
    /\ ~clientConnected
    /\ HandlerExit("WebSocketDisconnect")
    /\ UNCHANGED <<ws_request, ws_chunk, ws_opened, ws_pushed, ws_yielded,
                   ws_received, clientConnected>>

\* await websocket.send_json({"error": ..., "done": True}); continue
WsSendError ==
    /\ UNCHANGED <<chainVars, agentVars, graphVars, extractVars>>
    /\ ws_pc = "send_error"
    /\ IF clientConnected
       THEN /\ ws_pushed' = Append(ws_pushed, MissingFieldsEvent)
            /\ ws_pc' = "receive"
            /\ UNCHANGED <<active_connections, ws_call>>
       ELSE /\ \E exc \in SendFailures : HandlerExit(exc)
            /\ UNCHANGED ws_pushed
    /\ UNCHANGED <<ws_request, ws_chunk, ws_opened, ws_yielded, ws_received,
                   clientConnected>>

\* one read of the relayed stream: a yielded chunk is handed to the send, a
\* skipped line changes nothing, the end of the generator ends the push loop
WsReadLine ==
    /\ UNCHANGED <<chainVars, agentVars, graphVars, extractVars>>
    /\ ws_pc = "stream"
    /\ \E o \in OutcomesAfter(ws_call.lines) :
        LET g == stream_ollama_response(o)
        IN /\ ws_call' = CallAfter(ws_call, o, g.ended)
           /\ ws_chunk' = IF g.yields THEN g.chunk ELSE ws_chunk
           /\ ws_yielded' = IF g.yields THEN Append(ws_yielded, g.chunk) ELSE ws_yielded
           /\ ws_pc' = IF g.yields THEN "send" ELSE IF g.ended THEN "receive" ELSE "stream"
    /\ UNCHANGED <<active_connections, ws_request, ws_opened, ws_pushed, ws_received,
                   clientConnected>>

\* await websocket.send_json({"model": ..., "chunk": ..., ...}); break on done
WsSendChunk ==
    /\ UNCHANGED <<chainVars, agentVars, graphVars, extractVars>>
    /\ ws_pc = "send"
    /\ IF clientConnected
       THEN /\ ws_pushed' = Append(ws_pushed, TokenEvent(ws_request.model, ws_chunk))
            /\ IF IsDone(ws_chunk)
               THEN /\ ws_pc' = "receive"
                    /\ ws_call' = CloseCall(ws_call)
               ELSE /\ ws_pc' = "stream"
                    /\ ws_call' = LoopBodyRan(ws_call, [yields |-> TRUE, chunk |-> ws_chunk],
                                               FALSE)
            /\ UNCHANGED active_connections
       ELSE /\ \E exc \in SendFailures : HandlerExit(exc)
            /\ UNCHANGED ws_pushed
    /\ UNCHANGED <<ws_request, ws_chunk, ws_opened, ws_yielded, ws_received,
                   clientConnected>>

WsNext ==
    \/ WsAccept
    \/ ClientDisconnect
    \/ WsReceive
    \/ WsReceiveDisconnected
    \/ WsSendError
    \/ WsReadLine
    \/ WsSendChunk

SpecWs == WsInit /\ [][WsNext]_vars

\* the event loop resumes a handler whose await can complete: a read of the
\* backend stream (every read returns, the body being finite), a send, a
\* receive on a channel the client has left.  The client is not bound to send
\* a request, nor to leave.
WsFairness ==
    /\ WF_vars(WsReadLine)
    /\ WF_vars(WsSendChunk)
    /\ WF_vars(WsSendError)
    /\ WF_vars(WsReceiveDisconnected)

SpecWsLive == WsInit /\ [][WsNext]_vars /\ WsFairness

----------------------------------------------------------------------------
(* The investigative agent (src/agents/investigative_agent.py).  A string   *)
(* built by an f-string is the sequence of its pieces; a message or an      *)
(* output is such a sequence.                                               *)

AgentTypes == {"research", "analysis", "summary", "investigation", "other"}
Tasks == {"t1"}
\* parameters of an execute call: none, strings under both keys, numbers
\* under both keys
ParameterSets ==
    { NoParameters,
      [data |-> Str(<<"x", "y">>), content |-> Str(<<"a", "b", "c", "d", "e">>)],
      [data |-> Number, content |-> Number] }

\* parameters.get(key, "")
Get(value) == IF value.kind = "absent" THEN Str(<<>>) ELSE value

\* str(n) inside an f-string, n >= 0
Digits == <<"0", "1", "2", "3", "4", "5", "6", "7", "8", "9">>
RECURSIVE ToStr(_)
ToStr(n) ==
    IF n < 10 THEN <<Digits[n + 1]>>
    ELSE ToStr(n \div 10) \o <<Digits[(n % 10) + 1]>>

\* sep.join(parts)
RECURSIVE Join(_, _)
Join(sep, parts) ==
    IF parts = <<>> THEN <<>>
    ELSE IF Len(parts) = 1 THEN parts[1]
    ELSE parts[1] \o sep \o Join(sep, Tail(parts))

\* data[:100]
DataPrefixLen == 100
Prefix(text) ==
    SubSeq(text, 1, IF Len(text) < DataPrefixLen THEN Len(text) ELSE DataPrefixLen)

\* what a variant procedure does: the messages it hands to _log_step, in
\* order, and then either the string it returns or the exception it raises
Returns(log, value) == [log |-> log, raised |-> FALSE, value |-> value]
Raises(log, message) == [log |-> log, raised |-> TRUE, value |-> message]

research_agent(ms, task, parameters) ==
    Returns(<<<<"Starting research agent">>>>
              \o [i \in 1..Len(ms) |-> <<"Querying model: ", ms[i]>>]
              \o <<<<"Research completed">>>>,
            Join(<<"\n\n">>,
                 [i \in 1..Len(ms) |-> <<"[", ms[i], "] Research on: ", task>>]))

\* data[:100] raises TypeError in the first iteration when data is a number
analysis_agent(ms, task, parameters) ==
    LET data == Get(parameters.data) IN
    IF ms # <<>> /\ data.kind = "int"
    THEN Raises(<<<<"Starting analysis agent">>, <<"Analyzing with model: ", ms[1]>>>>,
                <<"'int' object is not subscriptable">>)
    ELSE Returns(<<<<"Starting analysis agent">>>>
                   \o [i \in 1..Len(ms) |-> <<"Analyzing with model: ", ms[i]>>]
                   \o <<<<"Analysis completed">>>>,
                 Join(<<"\n\n">>,
                      [i \in 1..Len(ms) |->
                          <<"[", ms[i], "] Analysis of: ", task, "\nData: ">>
                          \o Prefix(data.text) \o <<"...">>]))

\* variant: the last configured model is taken
SummaryModel_last(ms) == IF ms # <<>> THEN ms[Len(ms)] ELSE "default"

\* self.models[0] if self.models else "default"
SummaryModel(ms) == IF ms # <<>> THEN ms[1] ELSE "default"

\* len(content) raises TypeError when content is a number
summary_agent(ms, task, parameters) ==
    LET content == Get(parameters.content)
        model == SummaryModel(ms)
        log == <<<<"Starting summary agent">>,
                 <<"Generating summary with model: ", model>>>>
    IN  IF content.kind = "int"
        THEN Raises(log, <<"object of type 'int' has no len()">>)
        ELSE Returns(log \o <<<<"Summary completed">>>>,
                     <<"[", model, "] Summary of: ", task, "\nContent length: ">>
                     \o ToStr(Len(content.text)) \o <<" characters">>)

investigation_agent(ms, task, parameters) ==
    Returns(<<<<"Starting investigation agent">>,
              <<"Step 1: Information gathering">>,
              <<"Step 2: Analysis">>,
              <<"Step 3: Cross-referencing">>,
              <<"Step 4: Report generation">>,
              <<"Investigation completed">>>>,
            <<"\nINVESTIGATION REPORT\n====================\nTask: ", task,
              "\nModels Used: ">>
            \o Join(<<", ">>, [i \in 1..Len(ms) |-> <<ms[i]>>])
            \o <<"\n\n1. Information Gathering:\n",
                 "Gathering information about: ", task,
                 "\n\n2. Analysis:\n", "Analyzing findings for: ", task,
                 "\n\n3. Cross-Reference:\n", "Cross-referencing data across sources",
                 "\n\n4. Conclusion:\nInvestigation completed. See detailed findings above.\n">>)

\* the dispatch of execute on self.agent_type
Variant(type, ms, task, parameters) ==
    IF type = "research" THEN research_agent(ms, task, parameters)
    ELSE IF type = "analysis" THEN analysis_agent(ms, task, parameters)
    ELSE IF type = "summary" THEN summary_agent(ms, task, parameters)
    ELSE IF type = "investigation" THEN investigation_agent(ms, task, parameters)
    ELSE Returns(<<>>, <<"Unknown agent type: ", type>>)

\* _log_step: one entry per message, stamped with the clock
LogEntries(log, now) == [i \in 1..Len(log) |-> [timestamp |-> now, message |-> log[i]]]

\* variant: no handler, the exception leaves execute
Catches_none(message) == FALSE

\* except Exception as e: what the variants raise are TypeErrors
Catches(message) == TRUE

\* variant: the timing is recorded on the success path only
Finalize_onSuccess(r, end_time) ==
    IF r.status = "completed"
    THEN [r EXCEPT !.end_time = Some(end_time),
                   !.duration_seconds = Some(end_time - r.start_time)]
    ELSE r

\* end_time = datetime.now(); result["end_time"], result["duration_seconds"]
Finalize(r, end_time) ==
    [r EXCEPT !.end_time = Some(end_time),
              !.duration_seconds = Some(end_time - r.start_time)]

\* result["execution_log"] = self.execution_log stores the list object, not a
\* copy: the record holds this reference
LogRef == "self.execution_log"
\* the list a record's execution_log key shows when the record is read
Deref(ref) == execution_log

\* the state after InvestigativeAgent(agent_type, models)
AgentInit ==
    /\ agent_type \in AgentTypes
    /\ agent_models \in ModelLists
    /\ execution_log = <<>>
    /\ ag_pc = "idle"
    /\ ag_task = ""
    /\ ag_parameters = NoParameters
    /\ result = NewResult("none", "", <<>>, 0)
    /\ returned = <<>>
    /\ appended = <<>>
    /\ clock = 0
    /\ WsIdle
    /\ ChainIdle
    /\ GraphIdle
    /\ ExtractIdle

\* execute is called: start_time = datetime.now(); result = {...}
AgentExecute(task, parameters) ==
    /\ UNCHANGED <<chainVars, wsVars, graphVars, extractVars>>
    /\ ag_pc = "idle"
    /\ Len(returned) < MaxExecutes
    /\ ag_task' = task
    /\ ag_parameters' = parameters
    /\ result' = NewResult(agent_type, task, agent_models, clock)
    /\ appended' = Append(appended, <<>>)
    /\ ag_pc' = "variant"
    /\ UNCHANGED <<agent_type, agent_models, execution_log, returned, clock>>

\* the try block: the selected variant runs, _log_step appends to
\* self.execution_log; on return the output and the log are stored in the
\* record, on an exception the handler marks the record failed
AgentRunVariant ==
    /\ UNCHANGED <<chainVars, wsVars, graphVars, extractVars>>
    /\ ag_pc = "variant"
    /\ LET v == Variant(agent_type, agent_models, ag_task, ag_parameters)
           entries == LogEntries(v.log, clock)
       IN  /\ execution_log' = execution_log \o entries
           /\ appended' = [appended EXCEPT ![Len(appended)] = @ \o entries]
           /\ IF ~v.raised
              THEN /\ result' = [result EXCEPT !.output = Some(v.value),
                                               !.execution_log = Some(LogRef)]
                   /\ ag_pc' = "finalize"
              ELSE IF Catches(v.value)
              THEN /\ result' = [result EXCEPT !.status = "failed",
                                               !.error = Some(v.value)]
                   /\ ag_pc' = "finalize"
              ELSE /\ result' = result
                   /\ ag_pc' = "raised"
    /\ UNCHANGED <<agent_type, agent_models, ag_task, ag_parameters, returned, clock>>

\* after the try statement: the timing is recorded and the record returned
AgentFinalize ==
    /\ UNCHANGED <<chainVars, wsVars, graphVars, extractVars>>
    /\ ag_pc = "finalize"
    /\ result' = Finalize(result, clock)
    /\ returned' = Append(returned, result')
    /\ ag_pc' = "idle"
    /\ UNCHANGED <<agent_type, agent_models, execution_log, ag_task, ag_parameters,
                   appended, clock>>

\* time passes
AgentTick ==
    /\ UNCHANGED <<chainVars, wsVars, graphVars, extractVars>>
    /\ ag_pc \in {"idle", "variant", "finalize"}
    /\ clock < MaxClock
    /\ clock' = clock + 1
    /\ UNCHANGED <<agent_type, agent_models, execution_log, ag_pc, ag_task,
                   ag_parameters, result, returned, appended>>

AgentNext ==
    \/ \E task \in Tasks, parameters \in ParameterSets : AgentExecute(task, parameters)
    \/ AgentRunVariant
    \/ AgentFinalize
    \/ AgentTick

SpecAgent == AgentInit /\ [][AgentNext]_vars

----------------------------------------------------------------------------
(* Properties of the chain orchestrator *)

\* C1: in a sequential chain the entries follow the model order, the first
\* entry's input is the request's prompt, the input of every later entry is
\* the output of the entry before it, each input is the prompt its backend
\* invocation was given, and the returned list has one entry per model.
C1_SequentialFeedsForward ==
    chain_type = "sequential" =>
        /\ Len(results) <= Len(models)
        /\ \A k \in 1..Len(results) :
              /\ results[k].model = models[k]
              /\ results[k].input = calls[k].prompt
              /\ results[k].input = IF k = 1 THEN prompt ELSE results[k - 1].output
        /\ chain_pc = "returned" => Len(results) = Len(models)

\* a returned two-model chain whose first output is a two-fragment text
C1_Witness ==
    /\ chain_type = "sequential"
    /\ chain_pc = "returned"
    /\ Len(results) = 2
    /\ Len(results[1].output) = 2
    /\ results[2].input = results[1].output

\* C2: in a sequential chain, once the stream of step i has ended with a
\* connection failure, the model of step i+1 is not invoked.
C2_FailureNotFedForward ==
    chain_type = "sequential" =>
        \A i \in 1..(Len(models) - 1) :
            calls[i].failed => calls[i + 1].status = "unstarted"

\* C3: a returned parallel chain has one entry per model, in model order,
\* each with the request's prompt as input and, as output, the text the
\* backend delivered on that model's own stream.
C3_ParallelInModelOrder ==
    (chain_type = "parallel" /\ chain_pc = "returned") =>
        /\ Len(results) = Len(models)
        /\ \A i \in 1..Len(models) :
              /\ results[i].model = models[i]
              /\ results[i].input = prompt
              /\ calls[i].model = models[i]
              /\ calls[i].prompt = prompt
              /\ results[i].output = calls[i].sent

\* a returned parallel chain whose second coroutine finished first, the two
\* streams having delivered different texts
C3_Witness ==
    /\ chain_type = "parallel"
    /\ chain_pc = "returned"
    /\ completion = <<2, 1>>
    /\ calls[1].sent # calls[2].sent
    /\ calls[1].sent # <<>>
    /\ calls[2].sent # <<>>

\* C4: in a parallel chain, the step in which one invocation's connection
\* fails leaves every sibling coroutine and its stream as they were; the
\* call returns only when every invocation is closed; and the entry of every
\* invocation that did not fail holds the text its own stream delivered.
C4_ParallelFailureIsolated ==
    [][chain_type = "parallel" =>
        /\ \A i \in DOMAIN calls :
              (calls'[i].failed /\ ~calls[i].failed) =>
                  \A j \in DOMAIN calls \ {i} :
                      /\ calls'[j] = calls[j]
                      /\ tasks'[j] = tasks[j]
        /\ chain_pc' = "returned" =>
              /\ \A i \in DOMAIN calls : calls'[i].status = "closed"
              /\ Len(results') = Len(models)
              /\ \A j \in DOMAIN calls :
                    ~calls'[j].failed => results'[j].output = calls'[j].sent
      ]_vars

\* a returned parallel chain whose first invocation failed before the
\* second, which did not fail, had finished delivering a two-fragment text
C4_Witness ==
    /\ chain_type = "parallel"
    /\ chain_pc = "returned"
    /\ completion = <<1, 2>>
    /\ calls[1].failed
    /\ ~calls[2].failed
    /\ Len(results[2].output) = 2

\* C5: the entry of a step whose invocation failed differs from the entry a
\* normal completion with the same accumulated text produces.
C5_FailureCaptured ==
    \A i \in 1..Len(results) :
        calls[i].failed =>
            results[i] # ResultEntry(models[i], results[i].input, results[i].output)

\* C6: in a sequential chain the invocation of step i+1 is started only when
\* the stream of step i has been consumed to its first done chunk or its end.
C6_SequentialStrictOrder ==
    chain_type = "sequential" =>
        \A i \in 1..(Len(models) - 1) :
            calls[i + 1].status # "unstarted" => calls[i].status = "closed"

\* the second invocation is reading while the first one, which delivered
\* lines, is closed
C6_Witness ==
    /\ chain_type = "sequential"
    /\ Len(models) = 2
    /\ calls[2].status = "open"
    /\ calls[2].lines >= 1
    /\ calls[1].lines >= 1

\* C21: in both chain modes the output of every recorded entry is the
\* concatenation, in arrival order and with nothing in between, of the
\* response fragments of the events its invocation handed over, that
\* invocation being closed; and no invocation was read past an event with
\* done true.
C21_OutputIsTextUpToDone ==
    \A i \in DOMAIN calls :
        /\ ~calls[i].overrun
        /\ i <= Len(results) =>
              /\ calls[i].status = "closed"
              /\ results[i].output = calls[i].sent

\* a sequential chain whose first entry holds the two fragments "a", "b" of
\* two events, the second of which carried the done marker
C21_Witness ==
    /\ chain_type = "sequential"
    /\ Len(results) >= 1
    /\ calls[1].lines = 2
    /\ ~calls[1].failed
    /\ results[1].output = <<"a", "b">>

----------------------------------------------------------------------------
(* Properties of the streaming gateway *)

\* C7: reading a request object whose model or prompt is absent or empty
\* opens no backend stream and leads to the send of the error event; that
\* send, to a connected client, pushes exactly the one {error, done:true}
\* event and returns the handler to awaiting the next request, the channel
\* still registered (to a client that is gone it pushes nothing).
C7_MissingFieldsRejected ==
    [][/\ ( /\ ws_received' = ws_received + 1
            /\ ws_request'.json = "object"
            /\ \/ ~ws_request'.hasModel \/ ws_request'.model = ""
               \/ ~ws_request'.hasPrompt \/ ws_request'.prompt = <<>> )
          => /\ ws_pc' = "send_error"
             /\ ws_opened' = ws_opened
             /\ ws_call' = ws_call
             /\ ws_pushed' = <<>>
       /\ (ws_pc = "send_error" /\ ws_pc' # "send_error")
          => /\ ws_opened' = ws_opened
             /\ ws_call' = ws_call
             /\ IF clientConnected
                THEN /\ ws_pushed' = <<MissingFieldsEvent>>
                     /\ ws_pc' = "receive"
                     /\ Channel \in active_connections'
                ELSE ws_pushed' = <<>>
      ]_vars

\* after a served request, a request with an empty model has been answered
\* with the one error event and the handler can read the next request
C7_Witness ==
    /\ ws_received = 2
    /\ ws_opened = 1
    /\ ws_request.hasModel
    /\ ws_request.model = ""
    /\ ws_pushed = <<MissingFieldsEvent>>
    /\ ws_pc = "receive"
    /\ clientConnected
    /\ Channel \in active_connections

\* C8: once the client has disconnected, the gateway takes no further line
\* or chunk from the backend stream and pushes no event.
C8_DisconnectCancels ==
    [][~clientConnected =>
          /\ ws_call'.lines = ws_call.lines
          /\ ~(ws_pc = "stream" /\ ws_pc' = "send")
          /\ ws_pushed' = ws_pushed
      ]_vars

\* C9: the step in which the backend connection fails hands the
\* {error, done:true} chunk to the send with the channel still registered;
\* sending it to a connected client appends it as the invocation's event,
\* ends the push loop and returns the handler to awaiting the next request;
\* and whenever the handler awaits a request after a failed invocation, the
\* last event pushed is that terminal event.
C9_BackendFailureTerminalEvent ==
    /\ [][/\ (ws_call'.failed /\ ~ws_call.failed)
             => /\ ws_pc' = "send"
                /\ ws_chunk' = ErrorChunk
                /\ Channel \in active_connections'
          /\ (ws_pc = "send" /\ ws_chunk.error /\ clientConnected /\ ws_pc' # "send")
             => /\ ws_pushed' = Append(ws_pushed, TokenEvent(ws_request.model, ErrorChunk))
                /\ ws_pc' = "receive"
                /\ ws_call'.status = "closed"
                /\ Channel \in active_connections'
         ]_vars
    /\ []((ws_pc = "receive" /\ ws_call.failed /\ ws_request.json = "object"
             /\ ws_request.model = ws_call.model /\ ws_request.prompt = ws_call.prompt)
          => /\ ws_pushed # <<>>
             /\ ws_pushed[Len(ws_pushed)].chunk.error
             /\ ws_pushed[Len(ws_pushed)].chunk.done
             /\ Channel \in active_connections)

\* an invocation failed after a token was relayed; the error event is the
\* last one pushed and the handler can read the next request
C9_Witness ==
    /\ ws_pc = "receive"
    /\ ws_call.failed
    /\ Len(ws_pushed) = 2
    /\ ~ws_pushed[1].chunk.error
    /\ ws_pushed[2] = TokenEvent(ws_request.model, ErrorChunk)
    /\ clientConnected
    /\ Channel \in active_connections
    /\ ENABLED WsReceive

\* C10: while the push loop of an invocation runs, no request is read from
\* the channel and no further backend stream is opened; the handler awaits a
\* request, or sends a validation error, only with no invocation open.
C10_OneInvocationPerChannel ==
    /\ [][ws_call.status = "open" =>
              /\ ws_received' = ws_received
              /\ ws_opened' = ws_opened
         ]_vars
    /\ [](/\ ws_pc \in {"receive", "send_error"} => ws_call.status # "open"
          /\ ws_pc \in {"stream", "send"} => ws_call.status = "open"
          /\ ws_opened <= ws_received)

\* the second invocation of a channel is being relayed
C10_Witness ==
    /\ ws_opened = 2
    /\ ws_call.status = "open"
    /\ ws_pc = "send"
    /\ ws_pushed # <<>>

\* C11: the events pushed since a well-formed request was read are, position
\* by position, the chunks the backend stream yielded for it, each tagged
\* with the request's model; no chunk is taken after the first one with
\* done:true; all yielded chunks but the one being sent are pushed, and all of
\* them once the push loop is left with the client connected; the next
\* request is read only then, so the events of two invocations never mix.
C11_InOrderDelivery ==
    (ws_request.json = "object" /\ ws_request.hasModel /\ ws_request.model # ""
        /\ ws_request.hasPrompt /\ ws_request.prompt # <<>>) =>
        /\ Len(ws_pushed) <= Len(ws_yielded)
        /\ \A k \in 1..Len(ws_pushed) :
              ws_pushed[k] = [keys |-> {"model", "chunk", "timestamp"},
                              model |-> ws_request.model, chunk |-> ws_yielded[k]]
        /\ \A k \in 1..(Len(ws_yielded) - 1) : ~ws_yielded[k].done
        /\ ws_pc = "send" => Len(ws_pushed) = Len(ws_yielded) - 1
        /\ ws_pc \in {"stream", "receive"} => Len(ws_pushed) = Len(ws_yielded)
        /\ ws_pc = "receive" => ws_call.status = "closed"
        /\ ws_call.model = ws_request.model

\* the second invocation of a channel, for another model than the first, has
\* relayed a token and the done chunk and the handler awaits the next request
C11_Witness ==
    /\ ws_opened = 2
    /\ ws_request.model = "m2"
    /\ ws_pc = "receive"
    /\ Len(ws_pushed) = 2
    /\ ws_pushed[1].chunk.hasResponse
    /\ ~ws_pushed[1].chunk.done
    /\ ws_pushed[2].chunk.done
    /\ ws_pushed[2].model = "m2"

\* C22: every line taken from the body of the backend response is either
\* yielded as a chunk of the stream or skipped with the reading going on (a
\* malformed line is skipped, a well-formed one yielded, in the order of the
\* lines); and an {error, done:true} event is yielded only for a failure of
\* the connection, as the last event of the invocation.
C22_ReaderSkipsMalformed ==
    /\ [][ws_call'.lines = ws_call.lines + 1 =>
              \/ /\ ws_yielded' = ws_yielded
                 /\ ws_pc' = "stream"
              \/ /\ Len(ws_yielded') = Len(ws_yielded) + 1
                 /\ ~ws_yielded'[Len(ws_yielded')].error
         ]_vars
    /\ [](\A k \in 1..Len(ws_yielded) :
              ws_yielded[k].error => (ws_call.failed /\ k = Len(ws_yielded)))

\* C23: an invocation opened for a well-formed request leads, unless the
\* client leaves, to the handler awaiting the next request with an event
\* with done:true pushed for that invocation; and whenever the handler, its
\* client connected, awaits a request after an invocation, an event with
\* done:true was pushed for it.
C23_InvocationEndsWithDone ==
    LET DonePushed == \E k \in 1..Len(ws_pushed) : ws_pushed[k].chunk.done
    IN /\ (ws_pc = "stream") ~> ((ws_pc = "receive" /\ DonePushed) \/ ~clientConnected)
       /\ []((/\ ws_pc = "receive"
               /\ clientConnected
               /\ ws_request.json = "object"
               /\ ~MissingFields(ws_request)
               /\ ws_call.status = "closed") => DonePushed)

----------------------------------------------------------------------------
(* The graph builder (src/graph/graph_builder.py) behind POST               *)
(* /api/graph/build.  An entity is a dict whose keys may be absent: each    *)
(* key holds None (absent) or Some(value).  A list is an object on the      *)
(* heap; a dict that holds a list holds its reference.                      *)

\* abs(start1 - start2) < 200
ProximityLimit == 200

Entity(id, value, type, source, start) ==
    [id |-> id, value |-> value, type |-> type, source |-> source, start |-> start]

\* the entities explored: two of one source that share an id, differ in type
\* and lie close, a third of that source at the proximity limit from the
\* first, one of another source, one without id, source and position, and
\* the empty dict
EntityPool ==
    { Entity(Some("A"), Some("x"), Some("email"), Some("doc1"), Some(0)),
      Entity(Some("A"), Some("y"), Some("url"), Some("doc1"), Some(100)),
      Entity(Some("C"), Some("z"), Some("url"), Some("doc1"), Some(ProximityLimit)),
      Entity(Some("B"), Some("y"), Some("email"), Some("doc2"), Some(300)),
      Entity(None, Some("x"), Some("email"), None, None),
      Entity(None, None, None, None, None) }

RECURSIVE SeqsUpTo(_, _)
SeqsUpTo(S, n) ==
    IF n = 0 THEN {<<>>}
    ELSE LET shorter == SeqsUpTo(S, n - 1)
         IN  shorter \cup {Append(q, x) : q \in {t \in shorter : Len(t) = n - 1}, x \in S}

EntityLists == SeqsUpTo(EntityPool, MaxEntities)

\* entity.get(key, default)
GetOr(value, default) == IF value = None THEN default ELSE value[1]

\* entity.get("id") or entity.get("value", "unknown")
NodeId(entity) ==
    IF entity.id # None /\ entity.id # Some("")
    THEN entity.id[1]
    ELSE GetOr(entity.value, "unknown")

\* variant: no membership test, every entity adds a node
IsNew_always(node_id, node_ids) == TRUE

\* if node_id not in self.node_ids
IsNew(node_id, node_ids) == node_id \notin node_ids

\* _add_node on the accumulators
add_node(acc, entity) ==
    LET node_id == NodeId(entity) IN
    IF IsNew(node_id, acc.node_ids)
    THEN [nodes |-> Append(acc.nodes,
                           [id |-> node_id,
                            label |-> GetOr(entity.value, ""),
                            type |-> GetOr(entity.type, "unknown"),
                            source |-> GetOr(entity.source, "default"),
                            data |-> entity]),
          node_ids |-> acc.node_ids \cup {node_id}]
    ELSE acc

\* for entity in entities: self._add_node(entity)
RECURSIVE AddNodes(_, _)
AddNodes(acc, entities) ==
    IF entities = <<>> THEN acc
    ELSE AddNodes(add_node(acc, Head(entities)), Tail(entities))

\* _are_related
Abs(n) == IF n < 0 THEN 0 - n ELSE n

\* variant: only the types are compared, the positions are not looked at
are_related_byType(entity1, entity2) == entity1.type = entity2.type

are_related(entity1, entity2) ==
    IF entity1.type = entity2.type THEN TRUE
    ELSE LET start1 == GetOr(entity1.start, -1)
             start2 == GetOr(entity2.start, -1)
         IN  IF start1 >= 0 /\ start2 >= 0
             THEN Abs(start1 - start2) < ProximityLimit
             ELSE FALSE

\* variant: one group for all entities
GroupOf_single(entity) == "default"

\* source = entity.get("source", "default")
GroupOf(entity) == GetOr(entity.source, "default")

Indices(entities) == [i \in 1..Len(entities) |-> i]

\* the keys of source_groups in insertion order: the sources by first occurrence
GroupKeys(entities) ==
    LET first == SelectSeq(Indices(entities),
                     LAMBDA i : \A j \in 1..(i - 1) : GroupOf(entities[j]) # GroupOf(entities[i]))
    IN  [k \in 1..Len(first) |-> GroupOf(entities[first[k]])]

\* source_groups[source]: the group's entities in input order, by position
Group(entities, source) ==
    SelectSeq(Indices(entities), LAMBDA i : GroupOf(entities[i]) = source)

RECURSIVE Flatten(_)
Flatten(seqs) == IF seqs = <<>> THEN <<>> ELSE Head(seqs) \o Flatten(Tail(seqs))

\* for i, entity1 in enumerate(group): for entity2 in group[i+1:]
GroupPairs(group) ==
    Flatten([a \in 1..Len(group) |->
                [b \in 1..(Len(group) - a) |-> <<group[a], group[a + b]>>]])

\* the pairs _create_edges appends an edge for, in the order it appends them
RelatedPairs(entities) ==
    LET keys == GroupKeys(entities)
        all == Flatten([k \in 1..Len(keys) |-> GroupPairs(Group(entities, keys[k]))])
    IN  SelectSeq(all, LAMBDA p : are_related(entities[p[1]], entities[p[2]]))

\* str(x) of an id read with entity.get('id')
Fmt(value) == IF value = None THEN "None" ELSE value[1]

\* the edge dict of lines 72-79
Edge(entity1, entity2) ==
    [id |-> <<Fmt(entity1.id), "_", Fmt(entity2.id)>>,
     source |-> entity1.id, target |-> entity2.id,
     type |-> "related", weight |-> 1]

Edges(entities) ==
    LET pairs == RelatedPairs(entities)
    IN  [k \in 1..Len(pairs) |-> Edge(entities[pairs[k][1]], entities[pairs[k][2]])]

\* variant: the accumulator list is emptied, the object is kept
ResetList_inPlace(h, ref) == [heap |-> [h EXCEPT ![ref] = <<>>], ref |-> ref]

\* self.nodes = []: a new list object, the old one is left as it is
ResetList(h, ref) == [heap |-> Append(h, <<>>), ref |-> Len(h) + 1]

\* variant: the set of known ids is kept from the build before
ResetIds_keep(node_ids) == node_ids

\* self.node_ids = set()
ResetIds(node_ids) == {}

\* build_graph on the heap h with the builder b
build_graph(h, b, entities) ==
    LET n == ResetList(h, b.nodes)
        e == ResetList(n.heap, b.edges)
        acc == AddNodes([nodes |-> <<>>, node_ids |-> ResetIds(b.node_ids)], entities)
        filled == [e.heap EXCEPT ![n.ref] = @ \o acc.nodes,
                                 ![e.ref] = @ \o Edges(entities)]
    IN  [heap |-> filled,
         builder |-> [nodes |-> n.ref, edges |-> e.ref, node_ids |-> acc.node_ids],
         graph |-> [nodes |-> n.ref, edges |-> e.ref,
                    stats |-> [node_count |-> Len(filled[n.ref]),
                               edge_count |-> Len(filled[e.ref])]]]

\* the response body: the lists are read through their references
Serialize(h, data) ==
    [nodes |-> h[data.nodes], edges |-> h[data.edges], stats |-> data.stats]

GraphInit ==
    /\ GraphIdle
    /\ WsIdle
    /\ ChainIdle
    /\ AgentIdle
    /\ ExtractIdle

\* the handler body for a request whose entities are at hand: it has no
\* await, so graph_builder.build_graph runs to its return without another
\* handler in between
GraphBuild(r) ==
    /\ g_pc[r] = "none"
    /\ \E entities \in EntityLists :
           /\ g_entities' = [g_entities EXCEPT ![r] = entities]
           /\ \E b \in {build_graph(heap, builder, entities)} :
                  /\ heap' = b.heap
                  /\ builder' = b.builder
                  /\ graph_data' = [graph_data EXCEPT ![r] = b.graph]
           /\ edge_pairs' = [edge_pairs EXCEPT ![r] = RelatedPairs(entities)]
    /\ g_pc' = [g_pc EXCEPT ![r] = "built"]
    /\ UNCHANGED <<g_response, b_last, b_before, ep_data>>
    /\ UNCHANGED <<chainVars, wsVars, agentVars, extractVars>>

\* the returned dict is serialized and sent
GraphRespond(r) ==
    /\ g_pc[r] = "built"
    /\ g_response' = [g_response EXCEPT ![r] = Serialize(heap, graph_data[r])]
    /\ g_pc' = [g_pc EXCEPT ![r] = "responded"]
    /\ UNCHANGED <<heap, builder, g_entities, graph_data, edge_pairs, b_last, b_before,
                   ep_data>>
    /\ UNCHANGED <<chainVars, wsVars, agentVars, extractVars>>

GraphNext ==
    \/ \E r \in BuildRequests : GraphBuild(r)
    \/ \E r \in BuildRequests : GraphRespond(r)

SpecGraph == GraphInit /\ [][GraphNext]_vars

----------------------------------------------------------------------------
(* The builder as an object: one caller makes build_graph and               *)
(* add_custom_edge calls on one GraphBuilder, in any order, and keeps the   *)
(* dict of its latest build_graph call.                                     *)

\* most custom edges appended to the edge list of one build
MaxCustomEdges == 2

\* the arguments explored, with "A" and "C" ids that builds of the explored
\* entities make known and "Z" one that no build does: two known ids, one
\* known id twice with the default type, an unknown source, an unknown target
CustomCalls ==
    { <<"A", "C", "cites">>, <<"A", "A", "custom">>,
      <<"Z", "A", "custom">>, <<"C", "Z", "cites">> }
EdgeTypes == {call[3] : call \in CustomCalls}

\* the lists no reference is left to are released: build_graph has rebound
\* self.nodes and self.edges, and the caller has dropped the dict of its
\* build before; the two lists of the build are the heap
Released(b) ==
    [heap |-> <<b.heap[b.builder.nodes], b.heap[b.builder.edges]>>,
     builder |-> [b.builder EXCEPT !.nodes = 1, !.edges = 2],
     graph |-> [b.graph EXCEPT !.nodes = 1, !.edges = 2]]

\* the methods called so far, the latest call included
Called == b_before \cup (IF b_last.op = "none" THEN {} ELSE {b_last.op})

\* variant: the ids are not looked up, every edge is appended
Known_any(id, node_ids) == TRUE

\* source_id in self.node_ids
Known(id, node_ids) == id \in node_ids

\* the edge dict of lines 103-109
CustomEdge(source_id, target_id, edge_type) ==
    [id |-> <<source_id, "_", target_id>>,
     source |-> Some(source_id), target |-> Some(target_id),
     type |-> edge_type, weight |-> 1]

\* the edges of the current edge list that add_custom_edge appended
CustomCount ==
    Cardinality({k \in 1..Len(heap[builder.edges]) :
                    heap[builder.edges][k].type \in EdgeTypes})

BuilderInit ==
    /\ GraphIdle
    /\ WsIdle
    /\ ChainIdle
    /\ AgentIdle
    /\ ExtractIdle

\* graph = builder.build_graph(entities)
BuilderBuild ==
    /\ \E entities \in EntityLists :
           \E b \in {Released(build_graph(heap, builder, entities))} :
               /\ heap' = b.heap
               /\ builder' = b.builder
               /\ b_last' = [op |-> "build_graph", entities |-> entities, graph |-> b.graph]
    /\ b_before' = Called
    /\ UNCHANGED <<g_pc, g_entities, graph_data, g_response, edge_pairs, ep_data>>
    /\ UNCHANGED <<chainVars, wsVars, agentVars, extractVars>>

\* builder.add_custom_edge(source_id, target_id, edge_type)
BuilderAddCustomEdge(source_id, target_id, edge_type) ==
    /\ CustomCount < MaxCustomEdges
    /\ IF Known(source_id, builder.node_ids) /\ Known(target_id, builder.node_ids)
       THEN heap' = [heap EXCEPT ![builder.edges] =
                        Append(@, CustomEdge(source_id, target_id, edge_type))]
       ELSE heap' = heap
    /\ b_last' = [b_last EXCEPT !.op = "add_custom_edge"]
    /\ b_before' = Called
    /\ UNCHANGED <<builder, g_pc, g_entities, graph_data, g_response, edge_pairs, ep_data>>
    /\ UNCHANGED <<chainVars, wsVars, agentVars, extractVars>>

BuilderNext ==
    \/ BuilderBuild
    \/ \E call \in CustomCalls : BuilderAddCustomEdge(call[1], call[2], call[3])

SpecBuilder == BuilderInit /\ [][BuilderNext]_vars

----------------------------------------------------------------------------
(* The entity extractor (src/graph/entity_extractor.py).  A text is a       *)
(* sequence of characters and an offset counts the characters before a      *)
(* position.  The regular expressions are matched as the re module matches  *)
(* them: by backtracking, the alternatives of every quantifier tried in     *)
(* order of preference.                                                     *)

Upper ==
  { "A", "B", "C", "D", "E", "F", "G", "H", "I", "J", "K", "L", "M", "N", "O", "P", "Q", "R",
    "S", "T", "U", "V", "W", "X", "Y", "Z" }
Lower ==
  { "a", "b", "c", "d", "e", "f", "g", "h", "i", "j", "k", "l", "m", "n", "o", "p", "q", "r",
    "s", "t", "u", "v", "w", "x", "y", "z" }
Digit == {"0", "1", "2", "3", "4", "5", "6", "7", "8", "9"}
\* \s and \w on the characters used
Whitespace == {" ", "\t", "\n"}
WordChars == Upper \cup Lower \cup Digit \cup {"_"}

UpperSeq == <<"A", "B", "C", "D", "E", "F", "G", "H", "I", "J", "K", "L", "M",
              "N", "O", "P", "Q", "R", "S", "T", "U", "V", "W", "X", "Y", "Z">>
LowerSeq == <<"a", "b", "c", "d", "e", "f", "g", "h", "i", "j", "k", "l", "m",
              "n", "o", "p", "q", "r", "s", "t", "u", "v", "w", "x", "y", "z">>
\* text.lower()
ToLower(text) ==
    [k \in 1..Len(text) |->
        IF text[k] \in Upper
        THEN LowerSeq[CHOOSE i \in 1..Len(UpperSeq) : UpperSeq[i] = text[k]]
        ELSE text[k]]

\* a regular expression: a character class, a negated class, \b, a
\* concatenation, or a greedy repetition {min,max}
Unbounded == -1
Re(op, chars, args, min, max) ==
    [op |-> op, chars |-> chars, args |-> args, min |-> min, max |-> max]
In(chars) == Re("in", chars, <<>>, 0, 0)
NotIn(chars) == Re("notin", chars, <<>>, 0, 0)
Lit(c) == In({c})
WordBoundary == Re("wb", {}, <<>>, 0, 0)
Cat(args) == Re("cat", {}, args, 0, 0)
Rep(r, min, max) == Re("rep", {}, <<r>>, min, max)

\* \b at offset pos: exactly one of the characters around it is a word character
AtBoundary(text, pos) ==
    LET before == pos >= 1 /\ text[pos] \in WordChars
        after == pos < Len(text) /\ text[pos + 1] \in WordChars
    IN  before # after

\* the offsets at which a match of re that starts at pos can end, in the
\* order the backtracking matcher tries them
RECURSIVE Ends(_, _, _), EndsFromAll(_, _, _)
Ends(re, text, pos) ==
    CASE re.op = "in" ->
            IF pos < Len(text) /\ text[pos + 1] \in re.chars THEN <<pos + 1>> ELSE <<>>
      [] re.op = "notin" ->
            IF pos < Len(text) /\ text[pos + 1] \notin re.chars THEN <<pos + 1>> ELSE <<>>
      [] re.op = "wb" ->
            IF AtBoundary(text, pos) THEN <<pos>> ELSE <<>>
      [] re.op = "cat" ->
            IF re.args = <<>> THEN <<pos>>
            ELSE EndsFromAll(Cat(Tail(re.args)), text, Ends(Head(re.args), text, pos))
      [] re.op = "rep" ->
            LET once == SelectSeq(Ends(re.args[1], text, pos), LAMBDA e : e > pos)
                rest == Rep(re.args[1],
                            IF re.min = 0 THEN 0 ELSE re.min - 1,
                            IF re.max = Unbounded THEN Unbounded ELSE re.max - 1)
                more == IF re.max = 0 THEN <<>> ELSE EndsFromAll(rest, text, once)
            IN  more \o (IF re.min = 0 THEN <<pos>> ELSE <<>>)
EndsFromAll(re, text, starts) ==
    IF starts = <<>> THEN <<>>
    ELSE Ends(re, text, Head(starts)) \o EndsFromAll(re, text, Tail(starts))

\* re.finditer(pattern, text) from offset pos on: the leftmost matches,
\* one after the other, without overlap
RECURSIVE finditer(_, _, _)
finditer(re, text, pos) ==
    IF pos > Len(text) THEN <<>>
    ELSE LET ends == Ends(re, text, pos) IN
         IF ends = <<>>
         THEN finditer(re, text, pos + 1)
         ELSE <<[start |-> pos, end |-> ends[1]]>>
              \o finditer(re, text, IF ends[1] > pos THEN ends[1] ELSE pos + 1)

\* match.group()
GroupText(text, match) == SubSeq(text, match.start + 1, match.end)

\* self.patterns, in the order of the dict
EmailPattern ==
    Cat(<<WordBoundary,
          Rep(In(Upper \cup Lower \cup Digit \cup {".", "_", "%", "+", "-"}), 1, Unbounded),
          Lit("@"),
          Rep(In(Upper \cup Lower \cup Digit \cup {".", "-"}), 1, Unbounded),
          Lit("."),
          Rep(In(Upper \cup Lower \cup {"|"}), 2, Unbounded),
          WordBoundary>>)
UrlPattern ==
    Cat(<<Lit("h"), Lit("t"), Lit("t"), Lit("p"), Rep(Lit("s"), 0, 1),
          Lit(":"), Lit("/"), Lit("/"), Rep(NotIn(Whitespace), 1, Unbounded)>>)
PhonePattern ==
    Cat(<<WordBoundary, Rep(In(Digit), 3, 3), Rep(In({"-", "."}), 0, 1),
          Rep(In(Digit), 3, 3), Rep(In({"-", "."}), 0, 1), Rep(In(Digit), 4, 4),
          WordBoundary>>)
DatePattern ==
    Cat(<<WordBoundary, Rep(In(Digit), 1, 2), In({"/", "-"}), Rep(In(Digit), 1, 2),
          In({"/", "-"}), Rep(In(Digit), 2, 4), WordBoundary>>)
MoneyPattern ==
    Cat(<<Lit("$"), Rep(In(Digit), 1, Unbounded),
          Rep(Cat(<<Lit(","), Rep(In(Digit), 3, 3)>>), 0, Unbounded),
          Rep(Cat(<<Lit("."), Rep(In(Digit), 2, 2)>>), 0, 1)>>)
patterns ==
    <<[type |-> "email", pattern |-> EmailPattern],
      [type |-> "url", pattern |-> UrlPattern],
      [type |-> "phone", pattern |-> PhonePattern],
      [type |-> "date", pattern |-> DatePattern],
      [type |-> "money", pattern |-> MoneyPattern]>>

\* capitalized_pattern
CapitalizedPattern ==
    Cat(<<WordBoundary, In(Upper), Rep(In(Lower), 1, Unbounded),
          Rep(Cat(<<Rep(In(Whitespace), 1, Unbounded), In(Upper),
                    Rep(In(Lower), 1, Unbounded)>>), 0, Unbounded),
          WordBoundary>>)

\* r'\b[a-z]{4,}\b'
WordPattern == Cat(<<WordBoundary, Rep(In(Lower), 4, Unbounded), WordBoundary>>)

\* _get_stop_words
StopWords ==
    { <<"t", "h", "e">>, <<"i", "s">>, <<"a", "t">>, <<"w", "h", "i", "c", "h">>, <<"o", "n">>,
      <<"a", "n", "d">>, <<"a">>, <<"a", "n">>, <<"a", "s">>, <<"a", "r", "e">>,
      <<"w", "a", "s">>, <<"w", "e", "r", "e">>, <<"b", "e", "e", "n">>, <<"b", "e">>,
      <<"h", "a", "v", "e">>, <<"h", "a", "s">>, <<"h", "a", "d">>, <<"d", "o">>,
      <<"d", "o", "e", "s">>, <<"d", "i", "d">>, <<"w", "i", "l", "l">>,
      <<"w", "o", "u", "l", "d">>, <<"c", "o", "u", "l", "d">>,
      <<"s", "h", "o", "u", "l", "d">>, <<"m", "a", "y">>, <<"m", "i", "g", "h", "t">>,
      <<"m", "u", "s", "t">>, <<"c", "a", "n">>, <<"t", "h", "i", "s">>,
      <<"t", "h", "a", "t">>, <<"t", "h", "e", "s", "e">>, <<"t", "h", "o", "s", "e">>,
      <<"i">>, <<"y", "o", "u">>, <<"h", "e">>, <<"s", "h", "e">>, <<"i", "t">>, <<"w", "e">>,
      <<"t", "h", "e", "y">>, <<"t", "h", "e", "m">>, <<"t", "h", "e", "i", "r">>,
      <<"w", "h", "a", "t">>, <<"w", "h", "o">>, <<"w", "h", "e", "n">>,
      <<"w", "h", "e", "r", "e">>, <<"w", "h", "y">>, <<"h", "o", "w">>, <<"a", "l", "l">>,
      <<"e", "a", "c", "h">>, <<"e", "v", "e", "r", "y">>, <<"b", "o", "t", "h">>,
      <<"f", "e", "w">>, <<"m", "o", "r", "e">>, <<"m", "o", "s", "t">>,
      <<"o", "t", "h", "e", "r">>, <<"s", "o", "m", "e">>, <<"s", "u", "c", "h">>,
      <<"n", "o">>, <<"n", "o", "r">>, <<"n", "o", "t">>, <<"o", "n", "l", "y">>,
      <<"o", "w", "n">>, <<"s", "a", "m", "e">>, <<"s", "o">>, <<"t", "h", "a", "n">>,
      <<"t", "o", "o">>, <<"v", "e", "r", "y">>, <<"f", "r", "o", "m">>,
      <<"w", "i", "t", "h">>, <<"a", "b", "o", "u", "t">>, <<"i", "n", "t", "o">>,
      <<"t", "h", "r", "o", "u", "g", "h">>, <<"d", "u", "r", "i", "n", "g">>,
      <<"b", "e", "f", "o", "r", "e">>, <<"a", "f", "t", "e", "r">>,
      <<"a", "b", "o", "v", "e">>, <<"b", "e", "l", "o", "w">>, <<"t", "o">>, <<"u", "p">>,
      <<"d", "o", "w", "n">>, <<"i", "n">>, <<"o", "u", "t">>, <<"o", "f", "f">>,
      <<"o", "v", "e", "r">>, <<"u", "n", "d", "e", "r">>, <<"a", "g", "a", "i", "n">>,
      <<"f", "u", "r", "t", "h", "e", "r">>, <<"t", "h", "e", "n">>, <<"o", "n", "c", "e">> }

\* f"entity_{entity_id}"
EntityName(n) == <<"entity_">> \o ToStr(n)

\* the dict appended for a match
MatchEntity(n, type, text, match) ==
    [id |-> EntityName(n), type |-> type, value |-> GroupText(text, match),
     start |-> match.start, end |-> match.end]

\* the entities of one pattern, numbered from n on
PatternEntities(n, type, text, matches) ==
    [k \in 1..Len(matches) |-> MatchEntity(n + k - 1, type, text, matches[k])]

\* for entity_type, pattern in self.patterns.items(): ...
RECURSIVE AllPatternEntities(_, _, _)
AllPatternEntities(n, text, ps) ==
    IF ps = <<>> THEN <<>>
    ELSE LET found == PatternEntities(n, Head(ps).type, text,
                                      finditer(Head(ps).pattern, text, 0))
         IN  found \o AllPatternEntities(n + Len(found), text, Tail(ps))

\* the capitalized matches kept: len(value) > 2 and value not in seen_values
MinNameLen == 2
KeptNames(text) ==
    LET matches == finditer(CapitalizedPattern, text, 0)
    IN  SelectSeq([k \in 1..Len(matches) |-> k],
                  LAMBDA k :
                     /\ Len(GroupText(text, matches[k])) > MinNameLen
                     /\ \A j \in 1..(k - 1) :
                           GroupText(text, matches[j]) # GroupText(text, matches[k]))

NamedEntities(n, text) ==
    LET matches == finditer(CapitalizedPattern, text, 0)
        kept == KeptNames(text)
    IN  [k \in 1..Len(kept) |-> MatchEntity(n + k - 1, "named_entity", text, matches[kept[k]])]

\* sorted(word_freq.items(), key=freq, reverse=True): stable, the words of
\* equal count keep the order in which they entered the dict
RECURSIVE SortByFreq(_, _)
SortByFreq(words, freq) ==
    IF words = <<>> THEN <<>>
    ELSE LET sorted == SortByFreq(SubSeq(words, 1, Len(words) - 1), freq)
             w == words[Len(words)]
         IN  SelectSeq(sorted, LAMBDA v : freq[v] >= freq[w])
             \o <<w>>
             \o SelectSeq(sorted, LAMBDA v : freq[v] < freq[w])

\* _extract_key_phrases(text)
MaxPhrases == 10
extract_key_phrases(text) ==
    LET lower == ToLower(text)
        found == finditer(WordPattern, lower, 0)
        words == SelectSeq([k \in 1..Len(found) |-> GroupText(lower, found[k])],
                           LAMBDA w : w \notin StopWords)
        first == SelectSeq([k \in 1..Len(words) |-> k],
                           LAMBDA k : \A j \in 1..(k - 1) : words[j] # words[k])
        keys == [k \in 1..Len(first) |-> words[first[k]]]
        word_freq == [w \in {words[k] : k \in 1..Len(words)} |->
                         Cardinality({k \in 1..Len(words) : words[k] = w})]
        sorted_words == SortByFreq(keys, word_freq)
    IN  SubSeq(sorted_words, 1,
               IF Len(sorted_words) < MaxPhrases THEN Len(sorted_words) ELSE MaxPhrases)

\* variant: the end of a key phrase is the length of the phrase
KeyPhraseEntity_length(n, phrase) ==
    [id |-> EntityName(n), type |-> "key_phrase", value |-> phrase,
     start |-> -1, end |-> Len(phrase)]

\* the dict appended for a key phrase
KeyPhraseEntity(n, phrase) ==
    [id |-> EntityName(n), type |-> "key_phrase", value |-> phrase,
     start |-> -1, end |-> -1]

\* the words the explored texts are made of: one of each pattern, a name, a
\* capitalized word of two letters, a word, a stop word and a blank
Tokens ==
    { <<"a", "@", "b", ".", "c", "d">>, <<"h", "t", "t", "p", ":", "/", "/", "x">>,
      <<"5", "5", "5", "1", "2", "3", "4", "5", "6", "7">>, <<"1", "/", "2", "/", "3", "4">>,
      <<"$", "5">>, <<"B", "o", "b">>, <<"A", "l">>, <<"d", "a", "t", "a">>,
      <<"w", "i", "t", "h">>, <<" ">> }
Texts == {Flatten(t) : t \in SeqsUpTo(Tokens, MaxTokens)}

\* extract_entities(text) is called
ExtractInit ==
    /\ ex_text \in Texts
    /\ ex_pc = "patterns"
    /\ ex_entities = <<>>
    /\ entity_id = 0
    /\ rel_pc = "off"
    /\ rel_texts = <<>>
    /\ rel_entities = <<>>
    /\ relationships = <<>>
    /\ WsIdle
    /\ ChainIdle
    /\ AgentIdle
    /\ GraphIdle

\* the loop over self.patterns
ExtractPatterns ==
    /\ UNCHANGED <<chainVars, wsVars, agentVars, graphVars>>
    /\ ex_pc = "patterns"
    /\ LET found == AllPatternEntities(entity_id, ex_text, patterns)
       IN  /\ ex_entities' = ex_entities \o found
           /\ entity_id' = entity_id + Len(found)
    /\ ex_pc' = "named"
    /\ UNCHANGED <<ex_text, relVars>>

\* the loop over the capitalized matches
ExtractNamed ==
    /\ UNCHANGED <<chainVars, wsVars, agentVars, graphVars>>
    /\ ex_pc = "named"
    /\ LET found == NamedEntities(entity_id, ex_text)
       IN  /\ ex_entities' = ex_entities \o found
           /\ entity_id' = entity_id + Len(found)
    /\ ex_pc' = "phrases"
    /\ UNCHANGED <<ex_text, relVars>>

\* the loop over the key phrases, and the return
ExtractKeyPhrases ==
    /\ UNCHANGED <<chainVars, wsVars, agentVars, graphVars>>
    /\ ex_pc = "phrases"
    /\ LET key_phrases == extract_key_phrases(ex_text)
       IN  /\ ex_entities' = ex_entities
                \o [k \in 1..Len(key_phrases) |->
                       KeyPhraseEntity(entity_id + k - 1, key_phrases[k])]
           /\ entity_id' = entity_id + Len(key_phrases)
    /\ ex_pc' = "returned"
    /\ UNCHANGED <<ex_text, relVars>>

ExtractNext ==
    \/ ExtractPatterns
    \/ ExtractNamed
    \/ ExtractKeyPhrases

SpecExtract == ExtractInit /\ [][ExtractNext]_vars

----------------------------------------------------------------------------
(* A caller of the extractor: it has several texts extracted, one           *)
(* extract_entities call for each, keeps the entities of all the calls in   *)
(* one list and hands that list to extract_relationships.                   *)

\* most extract_entities calls whose entities the caller combines
MaxTexts == 2

\* the texts the caller has extracted: none, one or two entities of a
\* pattern, a name, a key phrase, and texts that hold several of them
CallTexts ==
    { <<>>,
      <<"a", "@", "b", ".", "c", "d">>,
      <<"B", "o", "b">>,
      <<"d", "a", "t", "a">>,
      <<"$", "5">>,
      <<"$", "5", " ", "$", "5">>,
      <<"B", "o", "b", " ", "a", "@", "b", ".", "c", "d">>,
      <<"B", "o", "b", " ", "d", "a", "t", "a">> }

\* extract_entities(text): the three loops, entity_id starting at 0
extract_entities(text) ==
    LET found == AllPatternEntities(0, text, patterns)
        named == NamedEntities(Len(found), text)
        key_phrases == extract_key_phrases(text)
    IN  found \o named
        \o [k \in 1..Len(key_phrases) |->
               KeyPhraseEntity(Len(found) + Len(named) + k - 1, key_phrases[k])]

\* abs(start1 - start2) < 100
CoOccurLimit == 100

\* for entity2 in entities[i+1:], by position
PartnersOf(entities, i) == (i + 1)..Len(entities)

\* the dict appended for a pair
Relationship(entity1, entity2) ==
    [source |-> entity1.id, target |-> entity2.id, type |-> "co_occurs", weight |-> 1]

\* the relationships of entities[i] with the entities after it, in order
RECURSIVE RelationshipsOf(_, _, _)
RelationshipsOf(entities, i, js) ==
    IF js = {} THEN <<>>
    ELSE LET j == CHOOSE k \in js : \A m \in js : k <= m
         IN  (IF Abs(entities[i].start - entities[j].start) < CoOccurLimit
              THEN <<Relationship(entities[i], entities[j])>>
              ELSE <<>>)
             \o RelationshipsOf(entities, i, js \ {j})

\* extract_relationships(entities, text); the text is not read
RECURSIVE RelationshipsFrom(_, _)
RelationshipsFrom(entities, i) ==
    IF i > Len(entities) THEN <<>>
    ELSE RelationshipsOf(entities, i, PartnersOf(entities, i))
         \o RelationshipsFrom(entities, i + 1)
extract_relationships(entities) == RelationshipsFrom(entities, 1)

RelateInit ==
    /\ rel_pc = "collect"
    /\ rel_texts = <<>>
    /\ rel_entities = <<>>
    /\ relationships = <<>>
    /\ ex_text = <<>>
    /\ ex_pc = "off"
    /\ ex_entities = <<>>
    /\ entity_id = 0
    /\ WsIdle
    /\ ChainIdle
    /\ AgentIdle
    /\ GraphIdle

\* entities.extend(extractor.extract_entities(text))
RelateExtract ==
    /\ rel_pc = "collect"
    /\ Len(rel_texts) < MaxTexts
    /\ \E text \in CallTexts :
           /\ rel_texts' = Append(rel_texts, text)
           /\ rel_entities' = rel_entities \o extract_entities(text)
    /\ UNCHANGED <<rel_pc, relationships, ex_text, ex_pc, ex_entities, entity_id>>
    /\ UNCHANGED <<chainVars, wsVars, agentVars, graphVars>>

\* relationships = extractor.extract_relationships(entities, text)
RelateCall ==
    /\ rel_pc = "collect"
    /\ relationships' = extract_relationships(rel_entities)
    /\ rel_pc' = "returned"
    /\ UNCHANGED <<rel_texts, rel_entities, ex_text, ex_pc, ex_entities, entity_id>>
    /\ UNCHANGED <<chainVars, wsVars, agentVars, graphVars>>

RelateNext ==
    \/ RelateExtract
    \/ RelateCall

SpecRelate == RelateInit /\ [][RelateNext]_vars

----------------------------------------------------------------------------
(* POST /api/graph/build with texts (src/backend/main.py): every text is    *)
(* extracted on its own, its entities are tagged with the source of the     *)
(* text, and the entities of all the texts are built into one graph.        *)

\* the source lists explored: fewer sources than texts, as many, more; the
\* same source for two texts or different ones
SourceLists == SeqsUpTo({"docA", "docB"}, MaxTexts)

\* the request bodies explored
TextLists == SeqsUpTo(CallTexts, MaxTexts)

\* a str as one value, from its characters
RECURSIVE StrOf(_)
StrOf(chars) == IF chars = <<>> THEN "" ELSE Head(chars) \o StrOf(Tail(chars))

\* sources[i] if i < len(sources) else f"source_{i}", i counted from 0
SourceOf(sources, i) ==
    IF i < Len(sources) THEN sources[i + 1] ELSE StrOf(<<"source_">> \o ToStr(i))

\* entity["source"] = source: the dict of the extractor with one more key,
\* as the builder reads it
Tagged(entity, source) ==
    [id |-> Some(StrOf(entity.id)), value |-> Some(StrOf(entity.value)),
     type |-> Some(entity.type), source |-> Some(source),
     start |-> Some(entity.start), end |-> Some(entity.end)]

\* the loop over enumerate(texts), from index i on
RECURSIVE AllEntities(_, _, _)
AllEntities(texts, sources, i) ==
    IF i >= Len(texts) THEN <<>>
    ELSE LET entities == extract_entities(texts[i + 1])
             source == SourceOf(sources, i)
         IN  [k \in 1..Len(entities) |-> Tagged(entities[k], source)]
             \o AllEntities(texts, sources, i + 1)

\* the request served
EndpointRequest == "r1"

EndpointInit ==
    /\ GraphIdle
    /\ WsIdle
    /\ ChainIdle
    /\ AgentIdle
    /\ ExtractIdle

\* the handler body: it has no await, so the extraction of every text and
\* build_graph run to the return without another handler in between
EndpointBuild ==
    /\ g_pc[EndpointRequest] = "none"
    /\ \E texts \in TextLists, sources \in SourceLists :
           /\ ep_data' = [texts |-> texts, sources |-> sources]
           /\ \E all_entities \in {AllEntities(texts, sources, 0)} :
                  /\ g_entities' = [g_entities EXCEPT ![EndpointRequest] = all_entities]
                  /\ \E b \in {build_graph(heap, builder, all_entities)} :
                         /\ heap' = b.heap
                         /\ builder' = b.builder
                         /\ graph_data' = [graph_data EXCEPT ![EndpointRequest] = b.graph]
                  /\ edge_pairs' = [edge_pairs EXCEPT
                                       ![EndpointRequest] = RelatedPairs(all_entities)]
    /\ g_pc' = [g_pc EXCEPT ![EndpointRequest] = "built"]
    /\ UNCHANGED <<g_response, b_last, b_before>>
    /\ UNCHANGED <<chainVars, wsVars, agentVars, extractVars>>

\* return graph_data: the dict is serialized and sent
EndpointRespond ==
    /\ GraphRespond(EndpointRequest)

EndpointNext ==
    \/ EndpointBuild
    \/ EndpointRespond

SpecEndpoint == EndpointInit /\ [][EndpointNext]_vars

----------------------------------------------------------------------------
(* Properties of the investigative agent *)

\* the record of the execute call last started, once its try statement is left
LastRecord == IF ag_pc = "finalize" THEN result ELSE returned[Len(returned)]
LastCallLeftTry ==
    \/ ag_pc = "finalize"
    \/ ag_pc = "idle" /\ returned # <<>>

\* C12: execute never raises: no execute call is left by an exception; when
\* the selected variant raises, the record has status "failed" and its error
\* is the exception's message; every call that has ended has handed one
\* record to its caller.
C12_ExecuteNeverRaises ==
    /\ ag_pc # "raised"
    /\ ag_pc = "idle" => Len(returned) = Len(appended)
    /\ LastCallLeftTry =>
          LET v == Variant(agent_type, agent_models, ag_task, ag_parameters) IN
          v.raised => /\ LastRecord.status = "failed"
                      /\ LastRecord.error = Some(v.value)

\* an analysis agent with a model was given a number as data: the slice
\* raised, and the caller holds a failed record with the TypeError's message
C12_Witness ==
    /\ ag_pc = "idle"
    /\ agent_type = "analysis"
    /\ Len(returned) = 1
    /\ returned[1].status = "failed"
    /\ returned[1].error = Some(<<"'int' object is not subscriptable">>)

StepLog(r) == IF r.execution_log = None THEN r.steps ELSE Deref(r.execution_log[1])

\* C14: the step log of every returned record holds exactly the entries
\* appended during the execute call that returned it, in append order,
\* whatever execute calls the instance serves afterwards.
C14_StepLogOwned ==
    \A k \in 1..Len(returned) : StepLog(returned[k]) = appended[k]

----------------------------------------------------------------------------
(* Properties of the graph builder *)

\* build_graph has returned for the request
Built(r) == g_pc[r] \in {"built", "responded"}

\* the graph of a request as its reader sees it: the response body once it is
\* sent, before that the returned dict read through its references
GraphOf(r) ==
    IF g_pc[r] = "responded" THEN g_response[r] ELSE Serialize(heap, graph_data[r])

\* C16: with the key of an entity being its id, else its value, else
\* "unknown": in every returned graph the node ids are pairwise distinct, every
\* entity's key is the id of a node, and the node of a key has the label
\* (value, else ""), type (else "unknown"), source (else "default") and
\* payload of the first entity of the input with that key.
C16_FirstWins ==
    \A r \in BuildRequests : Built(r) =>
        LET nodes == GraphOf(r).nodes
            entities == g_entities[r]
            C16_Key(entity) ==
                IF entity.id # None THEN entity.id[1]
                ELSE IF entity.value # None THEN entity.value[1]
                ELSE "unknown"
        IN  /\ \A a, b \in 1..Len(nodes) : a # b => nodes[a].id # nodes[b].id
            /\ \A i \in 1..Len(entities) :
                  \E a \in 1..Len(nodes) : nodes[a].id = C16_Key(entities[i])
            /\ \A a \in 1..Len(nodes) :
                  \E i \in 1..Len(entities) :
                      /\ C16_Key(entities[i]) = nodes[a].id
                      /\ \A j \in 1..(i - 1) : C16_Key(entities[j]) # nodes[a].id
                      /\ nodes[a].label = (IF entities[i].value = None THEN ""
                                           ELSE entities[i].value[1])
                      /\ nodes[a].type = (IF entities[i].type = None THEN "unknown"
                                          ELSE entities[i].type[1])
                      /\ nodes[a].source = (IF entities[i].source = None THEN "default"
                                            ELSE entities[i].source[1])
                      /\ nodes[a].data = entities[i]

\* the scenario of the specification: two entities with id "A", values "x"
\* and then "y", gave exactly one node, labelled "x"
C16_Witness ==
    \E r \in BuildRequests :
        /\ g_pc[r] = "responded"
        /\ Len(g_entities[r]) = 2
        /\ g_entities[r][1].id = Some("A") /\ g_entities[r][1].value = Some("x")
        /\ g_entities[r][2].id = Some("A") /\ g_entities[r][2].value = Some("y")
        /\ Len(g_response[r].nodes) = 1
        /\ g_response[r].nodes[1].label = "x"

\* C17: every edge of a returned graph was created from a pair of entities
\* with the same source tag: the graph has one edge per recorded pair, that
\* edge carries the pair's ids, and the pair's tags (an absent tag counting
\* as "default") are equal.
C17_NoCrossSourceEdge ==
    \A r \in BuildRequests : Built(r) =>
        LET edges == GraphOf(r).edges
            entities == g_entities[r]
            pairs == edge_pairs[r]
            C17_Tag(entity) == IF entity.source = None THEN "default" ELSE entity.source[1]
        IN  /\ Len(edges) = Len(pairs)
            /\ \A k \in 1..Len(pairs) :
                  /\ edges[k].source = entities[pairs[k][1]].id
                  /\ edges[k].target = entities[pairs[k][2]].id
                  /\ C17_Tag(entities[pairs[k][1]]) = C17_Tag(entities[pairs[k][2]])

\* two entities of the same type, one of "doc1" and one of "doc2", were
\* built into a graph with two nodes and no edge
C17_Witness ==
    \E r \in BuildRequests :
        /\ g_pc[r] = "responded"
        /\ Len(g_entities[r]) = 2
        /\ g_entities[r][1].source = Some("doc1")
        /\ g_entities[r][2].source = Some("doc2")
        /\ g_entities[r][1].type = g_entities[r][2].type
        /\ g_entities[r][1].id # g_entities[r][2].id
        /\ Len(g_response[r].nodes) = 2
        /\ g_response[r].edges = <<>>

\* C18: in every returned graph the source and the target of every edge are
\* ids of nodes of that graph.
C18_EdgesJoinNodes ==
    \A r \in BuildRequests : Built(r) =>
        LET g == GraphOf(r)
            ids == {g.nodes[a].id : a \in 1..Len(g.nodes)}
        IN  \A k \in 1..Len(g.edges) :
                /\ g.edges[k].source # None /\ g.edges[k].source[1] \in ids
                /\ g.edges[k].target # None /\ g.edges[k].target[1] \in ids

\* the graph build_graph computes from an entity sequence alone
GraphFrom(entities) ==
    LET nodes == AddNodes([nodes |-> <<>>, node_ids |-> {}], entities).nodes
        edges == Edges(entities)
    IN  [nodes |-> nodes, edges |-> edges,
         stats |-> [node_count |-> Len(nodes), edge_count |-> Len(edges)]]

\* C20: whatever the other request does, the graph a request is given,
\* from the return of build_graph to the response body, is the graph of its
\* own entity sequence: nodes, edges and stats.
C20_BuildsIsolated ==
    \A r \in BuildRequests : Built(r) => GraphOf(r) = GraphFrom(g_entities[r])

\* both requests are in progress, build_graph has returned for both and no
\* response is sent yet; their entity sequences and their graphs differ
C20_Witness ==
    /\ g_pc["r1"] = "built"
    /\ g_pc["r2"] = "built"
    /\ g_entities["r1"] # g_entities["r2"]
    /\ GraphOf("r1").nodes # <<>>
    /\ GraphOf("r2").edges # <<>>
    /\ GraphOf("r1") # GraphOf("r2")

----------------------------------------------------------------------------
(* Properties of the entity extractor *)

\* C19: every entity of extract_entities has 0 <= start < end, or start =
\* end = -1; a key_phrase entity has start = end = -1, an entity of any
\* other type has non-negative offsets; none has a negative start with a
\* non-negative end.
C19_OffsetsWellFormed ==
    \A k \in 1..Len(ex_entities) :
        LET e == ex_entities[k] IN
        /\ \/ 0 <= e.start /\ e.start < e.end
           \/ e.start = -1 /\ e.end = -1
        /\ e.type = "key_phrase" => (e.start = -1 /\ e.end = -1)
        /\ e.type # "key_phrase" => (e.start >= 0 /\ e.end >= 0)
        /\ ~(e.start < 0 /\ e.end >= 0)

\* a call has returned a pattern entity, a named entity and a key phrase,
\* the first two with the offsets of their match in the text
C19_Witness ==
    /\ ex_pc = "returned"
    /\ \E i, j, k \in 1..Len(ex_entities) :
          /\ ex_entities[i].type = "email"
          /\ ex_entities[i].value = SubSeq(ex_text, ex_entities[i].start + 1, ex_entities[i].end)
          /\ ex_entities[j].type = "named_entity"
          /\ ex_entities[j].end - ex_entities[j].start = Len(ex_entities[j].value)
          /\ ex_entities[k].type = "key_phrase"
          /\ ex_entities[k].start = -1

----------------------------------------------------------------------------
(* Properties of the registry of channels *)

\* the handler of the channel is running: accepted and not yet ended
HandlerRunning == ws_pc \in {"receive", "send_error", "stream", "send"}

\* C30: the registry holds the channel exactly while its handler is running:
\* from the accept on, and no longer once the handler has ended, whichever
\* way it ended; no removal fails because the channel is absent.
C30_RegistryTracksHandler ==
    /\ ws_pc # "crashed"
    /\ Channel \in active_connections <=> HandlerRunning
    /\ active_connections \subseteq {Channel}

\* the handler has ended on a request that could not be parsed, the client
\* still there, after it had relayed a stream
C30_Witness ==
    /\ ws_pc = "closed"
    /\ ws_request.json # "object"
    /\ clientConnected
    /\ ws_opened >= 1
    /\ Channel \notin active_connections

----------------------------------------------------------------------------
(* Properties of the edges of a built graph *)

----------------------------------------------------------------------------
(* Properties of the builder as an object *)

\* C25: whatever calls were made on the builder before, the dict a
\* build_graph call returns holds the nodes, the edges and the stats of its
\* own entity sequence alone, with node_count the number of its nodes and
\* edge_count the number of its edges.
C25_BuildIsStateless ==
    b_last.op = "build_graph" =>
        \A g \in {Serialize(heap, b_last.graph)} :
            /\ g = GraphFrom(b_last.entities)
            /\ g.stats.node_count = Len(g.nodes)
            /\ g.stats.edge_count = Len(g.edges)

\* after a build and a custom edge, a build of two entities has returned a
\* graph with a node and an edge
C25_Witness ==
    /\ b_last.op = "build_graph"
    /\ b_before = {"build_graph", "add_custom_edge"}
    /\ Len(b_last.entities) = 2
    /\ Len(heap[b_last.graph.nodes]) = 1
    /\ Len(heap[b_last.graph.edges]) = 1

\* C27: a step add_custom_edge(s, t, type) leaves the builder's node list
\* and known ids as they are; when s and t are both known ids it appends to
\* the edge list the one edge with id "<s>_<t>", source s, target t, the
\* given type and weight 1, and otherwise it leaves the edge list as it is.
C27_CustomEdgeFrame ==
    [][\A call \in CustomCalls :
          BuilderAddCustomEdge(call[1], call[2], call[3]) =>
              LET s == call[1]
                  t == call[2]
              IN  /\ builder' = builder
                  /\ heap'[builder.nodes] = heap[builder.nodes]
                  /\ Len(heap') = Len(heap)
                  /\ IF s \in builder.node_ids /\ t \in builder.node_ids
                     THEN heap'[builder.edges] =
                              Append(heap[builder.edges],
                                     [id |-> <<s, "_", t>>, source |-> <<s>>,
                                      target |-> <<t>>, type |-> call[3], weight |-> 1])
                     ELSE heap'[builder.edges] = heap[builder.edges]
      ]_vars

\* the edge "A_C" of type "cites" was appended to the edge list of a build,
\* which the dict that build returned shares: its stats still count one edge
C27_Witness ==
    /\ b_last.op = "add_custom_edge"
    /\ b_last.graph.stats.edge_count = 1
    /\ Len(heap[builder.edges]) = 2
    /\ heap[builder.edges][2].id = <<"A", "_", "C">>
    /\ heap[builder.edges][2].type = "cites"
    /\ builder.edges = b_last.graph.edges

----------------------------------------------------------------------------
(* Properties of the agent's dispatch *)

\* C24: every record returned by an agent whose type is none of research,
\* analysis, summary, investigation reports a failure: status "failed", an
\* error, no output.
C24_UnknownTypeRejected ==
    agent_type \notin {"research", "analysis", "summary", "investigation"} =>
        \A k \in 1..Len(returned) :
            /\ returned[k].status = "failed"
            /\ returned[k].error # None
            /\ returned[k].output = None

----------------------------------------------------------------------------
(* Properties of the relationships of extracted entities *)

\* C26: every relationship record extract_relationships returns has a source
\* different from its target and weight 1, also when the entity list
\* combines the entities of several extract_entities calls.
C26_NoSelfRelationship ==
    rel_pc = "returned" =>
        \A k \in 1..Len(relationships) :
            /\ relationships[k].source # relationships[k].target
            /\ relationships[k].weight = 1

----------------------------------------------------------------------------
(* Properties of the graph of a request that carries texts *)

\* C29: in the graph returned for a request with texts, every edge connects
\* two nodes that carry the same source tag, and that tag is the tag of the
\* two entities the edge was created from.
C29_EdgesWithinOneSource ==
    g_pc[EndpointRequest] = "responded" =>
        LET graph == g_response[EndpointRequest]
            entities == g_entities[EndpointRequest]
            pairs == edge_pairs[EndpointRequest]
            NodesOf(id) == {n \in 1..Len(graph.nodes) : Some(graph.nodes[n].id) = id}
        IN  \A k \in 1..Len(graph.edges) :
                /\ NodesOf(graph.edges[k].source) # {}
                /\ NodesOf(graph.edges[k].target) # {}
                /\ \A n \in NodesOf(graph.edges[k].source) \cup NodesOf(graph.edges[k].target) :
                       /\ Some(graph.nodes[n].source) = entities[pairs[k][1]].source
                       /\ Some(graph.nodes[n].source) = entities[pairs[k][2]].source

============================================================================
